---- MODULE Spec2Model ----
(***************************************************************************)
(* Model of the multi-asset scorer / ranker of GLOBALSTOCKPULSE            *)
(* (src/components/comparison.py, StockComparison).                        *)
(*                                                                         *)
(* Representation.                                                         *)
(*  - Floats are modelled by integers.  total_return, volatility and       *)
(*    max_drawdown are in percent; sharpe_ratio is in tenths (5 = 0.5);    *)
(*    rsi_current is in RSI points.  Only the order of a value relative to *)
(*    the thresholds and to other values matters to the code modelled.     *)
(*  - NaN is a distinguished number; every ordered comparison with it is   *)
(*    false, as in IEEE-754 / Python.                                      *)
(*  - A dict is a function whose DOMAIN is its key set; the insertion-     *)
(*    ordered dict `scores` is a sequence of [symbol, score] items.        *)
(*  - A text is the sequence of its words, so that the substring test      *)
(*    `'Uptrend' in trend_signal` is a contiguous-subsequence test.        *)
(*  - A price frame (stock_data) is represented by its number of rows and  *)
(*    by the four values calculate_metrics derives from the rows that the  *)
(*    ranker reads.                                                        *)
(***************************************************************************)
EXTENDS Integers, Sequences, FiniteSets, TLC

VARIABLES symbols, comparison_data, scores, result, pc,
          price_data, technical_data, tech_summary, indicator,
          perf_metrics, ai_advisor, data_fetcher, market_codes,
          news_sentiment

vars == <<symbols, comparison_data, scores, result, pc,
          price_data, technical_data, tech_summary, indicator,
          perf_metrics, ai_advisor, data_fetcher, market_codes,
          news_sentiment>>

\* the variables that the ranker and the analyzer do not touch
other_vars == <<perf_metrics, ai_advisor, data_fetcher, market_codes,
                news_sentiment>>

-----------------------------------------------------------------------------
(* Bounds of the checked input space *)

MaxSymbols == 3

Symbols == {"A", "B", "C"}

-----------------------------------------------------------------------------
(* Values *)

None == [none |-> TRUE]

NaN == -1000000000

\* float comparisons: false whenever an operand is NaN
FGt(a, b) == a # NaN /\ b # NaN /\ a > b

FLt(a, b) == a # NaN /\ b # NaN /\ a < b

\* dict.get(key, default)
Get(d, key, default) == IF key \in DOMAIN d THEN d[key] ELSE default

\* `needle in hay` on texts (sequences of words)
Contains(needle, hay) ==
    \E i \in 0..(Len(hay) - Len(needle)) :
        SubSeq(hay, i + 1, i + Len(needle)) = needle

\* seq[:n]
Take(seq, n) == SubSeq(seq, 1, IF Len(seq) < n THEN Len(seq) ELSE n)

STRONG_UPTREND == <<"Strong", "Uptrend">>

UPTREND == <<"Uptrend">>

STRONG_DOWNTREND == <<"Strong", "Downtrend">>

DOWNTREND == <<"Downtrend">>

SIDEWAYS == <<"Sideways">>

-----------------------------------------------------------------------------
(* StockComparison.calculate_metrics: None for a frame of fewer than two   *)
(* rows, else the record of metrics.                                       *)

\* faulty variant of calculate_metrics: the row-count test is off by one
calculate_metrics_OneRow(stock_data) ==
    IF stock_data.bars = 0 \/ stock_data.bars < 1
    THEN None
    ELSE [total_return |-> stock_data.total_return,
          volatility   |-> stock_data.volatility,
          sharpe_ratio |-> stock_data.sharpe_ratio,
          max_drawdown |-> stock_data.max_drawdown]

calculate_metrics(stock_data) ==
    IF stock_data.bars = 0 \/ stock_data.bars < 2
    THEN None
    ELSE [total_return |-> stock_data.total_return,
          volatility   |-> stock_data.volatility,
          sharpe_ratio |-> stock_data.sharpe_ratio,
          max_drawdown |-> stock_data.max_drawdown]

-----------------------------------------------------------------------------
(* The seven adjustments of _generate_fallback_comparison *)

\* faulty variant of ReturnPoints: the threshold 0 is inclusive
ReturnPoints_Inclusive(total_return) ==
    IF FGt(total_return, 30) THEN 25
    ELSE IF FGt(total_return, 20) THEN 20
    ELSE IF FGt(total_return, 10) THEN 15
    ELSE IF total_return >= 0 THEN 10
    ELSE IF FGt(total_return, -10) THEN 5
    ELSE -5

ReturnPoints(total_return) ==
    IF FGt(total_return, 30) THEN 25
    ELSE IF FGt(total_return, 20) THEN 20
    ELSE IF FGt(total_return, 10) THEN 15
    ELSE IF FGt(total_return, 0) THEN 10
    ELSE IF FGt(total_return, -10) THEN 5
    ELSE -5

SharpePoints(sharpe_ratio) ==
    IF FGt(sharpe_ratio, 20) THEN 20
    ELSE IF FGt(sharpe_ratio, 15) THEN 15
    ELSE IF FGt(sharpe_ratio, 10) THEN 10
    ELSE IF FGt(sharpe_ratio, 5) THEN 5
    ELSE 0

RsiPoints(summary) ==
    LET rsi == Get(summary, "rsi_current", 50)
    IN  IF FLt(45, rsi) /\ FLt(rsi, 55) THEN 10
        ELSE IF FLt(40, rsi) /\ FLt(rsi, 60) THEN 7
        ELSE IF FLt(30, rsi) /\ FLt(rsi, 70) THEN 3
        ELSE 0

\* faulty variant of TrendPoints: a strong downtrend is penalised more than
\* a downtrend
TrendPoints_StrongDowntrend(summary) ==
    LET trend_signal == Get(summary, "trend_signal", <<>>)
    IN  IF Contains(STRONG_UPTREND, trend_signal) THEN 5
        ELSE IF Contains(UPTREND, trend_signal) THEN 3
        ELSE IF Contains(STRONG_DOWNTREND, trend_signal) THEN -5
        ELSE IF Contains(DOWNTREND, trend_signal) THEN -3
        ELSE 0

TrendPoints(summary) ==
    LET trend_signal == Get(summary, "trend_signal", <<>>)
    IN  IF Contains(STRONG_UPTREND, trend_signal) THEN 5
        ELSE IF Contains(UPTREND, trend_signal) THEN 3
        ELSE IF Contains(DOWNTREND, trend_signal) THEN -3
        ELSE 0

VolatilityPoints(volatility) ==
    IF FLt(volatility, 15) THEN 15
    ELSE IF FLt(volatility, 20) THEN 10
    ELSE IF FLt(volatility, 30) THEN 5
    ELSE IF FLt(volatility, 40) THEN 2
    ELSE 0

DrawdownPoints(max_drawdown) ==
    IF FGt(max_drawdown, -10) THEN 10
    ELSE IF FGt(max_drawdown, -15) THEN 7
    ELSE IF FGt(max_drawdown, -20) THEN 5
    ELSE IF FGt(max_drawdown, -30) THEN 2
    ELSE 0

MacdPoints(summary) ==
    IF Get(summary, "macd_signal", "None") = "Bullish" THEN 5
    ELSE IF Get(summary, "macd_signal", "None") = "Bearish" THEN -2
    ELSE 0

\* score after the seven `score +=` blocks, before the clamp
RawScore(metrics, summary) ==
    50 + ReturnPoints(metrics.total_return)
       + SharpePoints(metrics.sharpe_ratio)
       + RsiPoints(summary)
       + TrendPoints(summary)
       + VolatilityPoints(metrics.volatility)
       + DrawdownPoints(metrics.max_drawdown)
       + MacdPoints(summary)

Min(a, b) == IF a < b THEN a ELSE b

Max(a, b) == IF a > b THEN a ELSE b

\* faulty variant of Clamp: the upper limit is forgotten
Clamp_NoCeiling(score) == Max(0, score)

\* max(0, min(100, score))
Clamp(score) == Max(0, Min(100, score))

-----------------------------------------------------------------------------
(* The insertion-ordered dict `scores` *)

HasKey(d, symbol) == \E i \in 1..Len(d) : d[i].symbol = symbol

\* scores[symbol] = score : a new key is appended, an existing key keeps
\* its position
DictSet(d, symbol, score) ==
    IF HasKey(d, symbol)
    THEN [i \in 1..Len(d) |->
            IF d[i].symbol = symbol THEN [symbol |-> symbol, score |-> score]
            ELSE d[i]]
    ELSE Append(d, [symbol |-> symbol, score |-> score])

\* scores[symbol]
DictGet(d, symbol) ==
    d[CHOOSE i \in 1..Len(d) : d[i].symbol = symbol].score

\* faulty variant of ScoreStep: an asset without metrics is left out of
\* `scores` instead of being stored with the base score
ScoreStep_SkipUnusable(d, symbol, cd) ==
    IF symbol \notin DOMAIN cd
    THEN d
    ELSE LET data    == cd[symbol]
             metrics == calculate_metrics(data.data)
         IN  IF metrics = None
             THEN d
             ELSE DictSet(d, symbol, Clamp(RawScore(metrics, data.summary)))

\* one iteration of `for symbol in symbols`
ScoreStep(d, symbol, cd) ==
    IF symbol \notin DOMAIN cd
    THEN d
    ELSE LET data    == cd[symbol]
             metrics == calculate_metrics(data.data)
         IN  IF metrics = None
             THEN DictSet(d, symbol, 50)
             ELSE DictSet(d, symbol, Clamp(RawScore(metrics, data.summary)))

RECURSIVE ScoreLoop(_, _, _, _)
ScoreLoop(d, syms, i, cd) ==
    IF i > Len(syms) THEN d
    ELSE ScoreLoop(ScoreStep(d, syms[i], cd), syms, i + 1, cd)

-----------------------------------------------------------------------------
(* sorted(scores.items(), key=lambda x: x[1], reverse=True): a stable      *)
(* sort, descending by score                                               *)

\* faulty variant of InsertSorted: an item goes before the items of equal
\* score, which reverses ties
InsertSorted_BeforeTies(sorted, item) ==
    LET n == Cardinality({j \in 1..Len(sorted) : sorted[j].score > item.score})
    IN  SubSeq(sorted, 1, n) \o <<item>> \o SubSeq(sorted, n + 1, Len(sorted))

\* insert item behind every item whose score is not smaller
InsertSorted(sorted, item) ==
    LET n == Cardinality({j \in 1..Len(sorted) : sorted[j].score >= item.score})
    IN  SubSeq(sorted, 1, n) \o <<item>> \o SubSeq(sorted, n + 1, Len(sorted))

RECURSIVE SortFrom(_, _, _)
SortFrom(sorted, items, i) ==
    IF i > Len(items) THEN sorted
    ELSE SortFrom(InsertSorted(sorted, items[i]), items, i + 1)

\* faulty variant of Sorted: the items stay in insertion order
Sorted_InsertionOrder(items) == items

Sorted(items) == SortFrom(<<>>, items, 1)

-----------------------------------------------------------------------------
(* The outcome of a call: the returned dict, or the exception that         *)
(* propagates to the caller                                                *)

Returned(value) == [outcome |-> "returned", value |-> value]

Raised(exception) == [outcome |-> "raised", exception |-> exception]

NoResult == [outcome |-> "none"]

Reason(text, versus) == [text |-> text, versus |-> versus]

-----------------------------------------------------------------------------
(* StockComparison._get_default_analysis *)

_get_default_analysis(syms) ==
    [best_choice |-> IF Len(syms) > 0 THEN syms[1] ELSE "N/A",
     best_choice_reasons |->
        << Reason("Insufficient data available for comprehensive analysis", ""),
           Reason("Please try different stock symbols or time periods", ""),
           Reason("Ensure stock symbols are valid for their respective markets", "") >>,
     rankings |->
        [i \in 1..Len(syms) |->
            [symbol |-> syms[i], rank |-> (i - 1) + 1, score |-> 50,
             rationale |-> "Insufficient data"]],
     risk_comparison |->
        [text |-> "Unable to perform risk comparison due to insufficient data"],
     return_comparison |->
        [text |-> "Unable to compare returns due to insufficient data"],
     technical_comparison |->
        [text |-> "Unable to perform technical comparison due to insufficient data"],
     recommendation |->
        [text |-> "Please select different stocks or verify that symbols are correct"],
     summary |->
        [text |-> "Analysis could not be completed due to insufficient data."]]

-----------------------------------------------------------------------------
(* StockComparison._generate_fallback_comparison, after the scoring loop *)

\* faulty variant of BestChoice: the last item of the sorted list
BestChoice_Last(ranked) == ranked[Len(ranked)].symbol

\* best_choice = ranked[0][0]
BestChoice(ranked) == ranked[1].symbol

\* the `rankings` list; position i of Python's enumerate is i - 1 here
Rankings(ranked, cd) ==
    [i \in 1..Len(ranked) |->
        LET metrics == calculate_metrics(cd[ranked[i].symbol].data)
        IN  [symbol    |-> ranked[i].symbol,
             rank      |-> (i - 1) + 1,
             score     |-> ranked[i].score,
             rationale |-> IF metrics # None THEN "Overall Score"
                           ELSE "Limited data available."]]

\* the three reasons about the best choice alone
BestReasons(best_metrics) ==
    << Reason("Highest overall score", ""),
       IF FGt(best_metrics.total_return, 0)
       THEN Reason("Superior return performance", "")
       ELSE Reason("Best risk-adjusted performance", ""),
       IF FGt(best_metrics.sharpe_ratio, 5)
       THEN Reason("Excellent risk-reward profile", "")
       ELSE Reason("Favorable technical setup", "") >>

\* faulty variant of CompareWithSecond: the volatility comparison is reversed
CompareWithSecond_Reversed(ranked, cd, best_metrics) ==
    IF Len(ranked) > 1
    THEN LET second_symbol  == ranked[2].symbol
             second_metrics == calculate_metrics(cd[second_symbol].data)
         IN  IF second_metrics # None
             THEN IF FGt(best_metrics.total_return, second_metrics.total_return)
                  THEN << Reason("Outperforms", second_symbol) >>
                  ELSE IF FGt(best_metrics.volatility, second_metrics.volatility)
                  THEN << Reason("Lower volatility", second_symbol) >>
                  ELSE << >>
             ELSE << >>
    ELSE << >>

\* `# Compare with second best`: the reasons this block appends
CompareWithSecond(ranked, cd, best_metrics) ==
    IF Len(ranked) > 1
    THEN LET second_symbol  == ranked[2].symbol
             second_metrics == calculate_metrics(cd[second_symbol].data)
         IN  IF second_metrics # None
             THEN IF FGt(best_metrics.total_return, second_metrics.total_return)
                  THEN << Reason("Outperforms", second_symbol) >>
                  ELSE IF FLt(best_metrics.volatility, second_metrics.volatility)
                  THEN << Reason("Lower volatility", second_symbol) >>
                  ELSE << >>
             ELSE << >>
    ELSE << >>

\* the dict display of the return statement.  Building 'return_comparison'
\* subscripts calculate_metrics(...) of the second-ranked asset: a None
\* there raises TypeError.
NormalAnalysis(syms, ranked, cd, sc) ==
    LET best_choice  == BestChoice(ranked)
        best_metrics == calculate_metrics(cd[best_choice].data)
        best_summary == cd[best_choice].summary
        reasons      == BestReasons(best_metrics)
                           \o CompareWithSecond(ranked, cd, best_metrics)
        uptrend      == Contains(UPTREND, Get(best_summary, "trend_signal", <<>>))
    IN  IF Len(ranked) > 1 /\ calculate_metrics(cd[ranked[2].symbol].data) = None
        THEN Raised("TypeError")
        ELSE Returned(
          [best_choice |-> best_choice,
           best_choice_reasons |-> Take(reasons, 4),
           rankings |-> Rankings(ranked, cd),
           risk_comparison |->
              [text |-> "Risk analysis", about |-> best_choice],
           return_comparison |->
              [text |-> "strongest performance", about |-> best_choice,
               outpaces |-> IF Len(ranked) > 1 THEN ranked[2].symbol ELSE ""],
           technical_comparison |->
              [text |-> "Technical analysis favors", about |-> best_choice,
               suggests |-> IF uptrend THEN "continued upward momentum"
                            ELSE "stable price action"],
           recommendation |->
              [text |-> "Primary recommendation", about |-> best_choice,
               diversify |-> IF Len(ranked) > 1 THEN ranked[2].symbol ELSE ""],
           summary |->
              [text |-> "Comprehensive analysis", stocks |-> Len(syms),
               about |-> best_choice, score |-> DictGet(sc, best_choice)]])

_generate_fallback_comparison(syms, cd) ==
    LET sc     == ScoreLoop(<<>>, syms, 1, cd)
        ranked == Sorted(sc)
    IN  IF Len(ranked) = 0
        THEN Returned(_get_default_analysis(syms))
        ELSE IF calculate_metrics(cd[BestChoice(ranked)].data) = None
        THEN Returned(_get_default_analysis(syms))
        ELSE NormalAnalysis(syms, ranked, cd, sc)

-----------------------------------------------------------------------------
(* Input spaces *)

\* a price frame, by its row count (2 stands for two rows or more) and the
\* metric values derived from it
Frame(bars, total_return, volatility, sharpe_ratio, max_drawdown) ==
    [bars |-> bars, total_return |-> total_return, volatility |-> volatility,
     sharpe_ratio |-> sharpe_ratio, max_drawdown |-> max_drawdown]

\* the keys of a technical summary that the ranker reads
Summary(rsi_current, trend_signal, macd_signal) ==
    [rsi_current |-> rsi_current, trend_signal |-> trend_signal,
     macd_signal |-> macd_signal]

Entry(data, summary) == [data |-> data, summary |-> summary]

SymbolLists == UNION {[1..n -> Symbols] : n \in 0..MaxSymbols}

\* entries without usable metrics: an empty frame with the empty summary, and
\* a one-row frame with the summary of a one-row panel
UnusableEntries ==
    { Entry(Frame(0, 0, 0, 0, 0), << >>),
      Entry(Frame(1, 0, 0, 0, 0), Summary(NaN, SIDEWAYS, "Neutral")) }

RankReturns == {-20, 0, 25}

RankVolatilities == {12, 50}

RankSummaries == { Summary(75, DOWNTREND, "Bearish"),
                   Summary(50, STRONG_UPTREND, "Bullish") }

RankEntries ==
    UnusableEntries \cup
    { Entry(Frame(2, tr, vol, 3, -35), s) :
        tr \in RankReturns, vol \in RankVolatilities, s \in RankSummaries }

ScoreReturns == {-1000000, -10, 0, 10, 20, 30, 1000000}

ScoreSharpes == {-1000000, 5, 10, 15, 20, 1000000}

ScoreRsis == {30, 40, 45, 50, 55, 60, 70, NaN}

ScoreTrends == {STRONG_UPTREND, UPTREND, STRONG_DOWNTREND, DOWNTREND, SIDEWAYS}

ScoreVolatilities == {0, 15, 20, 30, 40}

ScoreDrawdowns == {0, -10, -15, -20, -30}

ScoreMacds == {"Bullish", "Bearish", "Neutral"}

ScoreSummaries ==
    { << >> } \cup
    { Summary(rsi, trend, macd) :
        rsi \in ScoreRsis, trend \in ScoreTrends, macd \in ScoreMacds }

ScoreEntries ==
    { Entry(Frame(2, tr, vol, sh, dd), s) :
        tr \in ScoreReturns, vol \in ScoreVolatilities, sh \in ScoreSharpes,
        dd \in ScoreDrawdowns, s \in ScoreSummaries }

\* the two-asset scenario: asset A with strong metrics and a bullish summary,
\* asset B with weak metrics and a bearish summary, under every RSI reading
ScenarioRsis == {0, 25, 30, 40, 45, 50, 55, 60, 70, 75, 100, NaN}

ScenarioEntryA(rsi) ==
    Entry(Frame(2, 25, 12, 18, -8), Summary(rsi, STRONG_UPTREND, "Bullish"))

ScenarioEntryB(rsi) ==
    Entry(Frame(2, 2, 35, 3, -25), Summary(rsi, DOWNTREND, "Bearish"))

-----------------------------------------------------------------------------
(* The state machine: one call of the ranker on the drawn input *)

\* nothing but the ranker or the analyzer runs
IdleOther ==
    /\ perf_metrics = NoResult
    /\ ai_advisor = NoResult
    /\ data_fetcher = NoResult
    /\ market_codes = << >>
    /\ news_sentiment = NoResult

\* no TechnicalAnalyzer call is part of a run of the ranker
IdleAnalyzer ==
    /\ price_data = NoResult
    /\ technical_data = NoResult
    /\ tech_summary = NoResult
    /\ indicator = NoResult

Init ==
    /\ symbols \in SymbolLists
    /\ comparison_data \in UNION {[D -> RankEntries] : D \in SUBSET Symbols}
    /\ scores = << >>
    /\ result = NoResult
    /\ pc = "ready"
    /\ IdleAnalyzer
    /\ IdleOther

InitScore ==
    /\ symbols \in {<<s>> : s \in Symbols}
    /\ comparison_data \in {[D \in {"A"} |-> e] : e \in ScoreEntries}
    /\ scores = << >>
    /\ result = NoResult
    /\ pc = "ready"
    /\ IdleAnalyzer
    /\ IdleOther

GenerateFallbackComparison ==
    /\ pc = "ready"
    /\ scores' = ScoreLoop(<< >>, symbols, 1, comparison_data)
    /\ result' = _generate_fallback_comparison(symbols, comparison_data)
    /\ pc' = "done"
    /\ UNCHANGED <<symbols, comparison_data>>
    /\ UNCHANGED <<price_data, technical_data, tech_summary, indicator>>
    /\ UNCHANGED other_vars

Next == GenerateFallbackComparison

Spec == Init /\ [][Next]_vars

SpecScore == InitScore /\ [][Next]_vars

InitScenario ==
    /\ symbols \in {<<"A", "B">>, <<"B", "A">>}
    /\ comparison_data \in
          {[s \in {"A", "B"} |->
               IF s = "A" THEN ScenarioEntryA(ra) ELSE ScenarioEntryB(rb)] :
             ra \in ScenarioRsis, rb \in ScenarioRsis}
    /\ scores = << >>
    /\ result = NoResult
    /\ pc = "ready"
    /\ IdleAnalyzer
    /\ IdleOther

SpecScenario == InitScenario /\ [][Next]_vars

TypeOK ==
    /\ pc \in {"ready", "done", "idle"}
    /\ (pc \in {"ready", "idle"}) <=> (result = NoResult)
    /\ result.outcome \in {"none", "returned", "raised"}

-----------------------------------------------------------------------------
(* Vocabulary of the properties *)

Range(seq) == {seq[i] : i \in 1..Len(seq)}

IsReturned == pc = "done" /\ result.outcome = "returned"

\* the degraded (insufficient-data) result, recognised by its first reason
IsDegraded ==
    /\ IsReturned
    /\ result.value.best_choice_reasons[1].text
          = "Insufficient data available for comprehensive analysis"

IsNormal == IsReturned /\ ~IsDegraded

\* the input assets: symbols of the input list that comparison_data holds
Present == Range(symbols) \cap DOMAIN comparison_data

\* the input assets for which calculate_metrics is non-null
Usable == {s \in Present : calculate_metrics(comparison_data[s].data) # None}

-----------------------------------------------------------------------------
\* C1: every score the ranker stores for an asset, and every score it reports
\* in rankings, is an integer in [0,100], whatever the metrics and summary
\* values (extreme ones included).
C1_ScoreInRange ==
    pc = "done" =>
        /\ \A i \in 1..Len(scores) : scores[i].score \in 0..100
        /\ result.outcome = "returned" =>
              \A i \in 1..Len(result.value.rankings) :
                  result.value.rankings[i].score \in 0..100

\* an asset whose adjustments sum above 100 is reported with score 100
C1_Witness ==
    /\ IsNormal
    /\ \E i \in 1..Len(result.value.rankings) :
          LET e == comparison_data[result.value.rankings[i].symbol]
          IN  /\ e.data.total_return = 1000000
              /\ e.data.volatility = 0
              /\ RawScore(calculate_metrics(e.data), e.summary) > 100
              /\ result.value.rankings[i].score = 100

-----------------------------------------------------------------------------
\* C2: rankings is in non-increasing score order, entries of equal score are
\* in the order the input symbol list gave them, and the entry at position i
\* (0-based) has rank i+1.
C2_RankingOrder ==
    IsReturned =>
        LET r == result.value.rankings
        IN  /\ \A i \in 1..Len(r) : r[i].rank = i
            /\ \A i \in 1..Len(r), j \in 1..Len(r) :
                  i < j => r[i].score >= r[j].score
            /\ \A i \in 1..Len(r), j \in 1..Len(r) :
                  (i < j /\ r[i].score = r[j].score) =>
                      \E p \in 1..Len(symbols), q \in 1..Len(symbols) :
                          /\ p < q
                          /\ symbols[p] = r[i].symbol
                          /\ symbols[q] = r[j].symbol

\* a normal ranking of three assets in which the sort moved an asset up and
\* two assets tie
C2_Witness ==
    /\ IsNormal
    /\ LET r == result.value.rankings
       IN  /\ Len(r) = 3
           /\ r[1].score > r[2].score
           /\ r[2].score = r[3].score
           /\ r[1].symbol = symbols[3]

-----------------------------------------------------------------------------
\* C3: in every returned result (normal or degraded) with a non-empty
\* rankings list, best_choice is the asset of the entry whose rank is 1.
C3_BestIsRankOne ==
    (IsReturned /\ Len(result.value.rankings) > 0) =>
        /\ \E i \in 1..Len(result.value.rankings) :
              result.value.rankings[i].rank = 1
        /\ \A i \in 1..Len(result.value.rankings) :
              result.value.rankings[i].rank = 1 =>
                  result.value.rankings[i].symbol = result.value.best_choice

\* a normal result whose best choice is not the first input symbol
C3_Witness ==
    /\ IsNormal
    /\ Len(result.value.rankings) >= 2
    /\ result.value.best_choice # symbols[1]
    /\ result.value.rankings[1].symbol = result.value.best_choice

-----------------------------------------------------------------------------
\* the reasons of the result that compare the best choice with another asset
ComparativeReasons ==
    {i \in 1..Len(result.value.best_choice_reasons) :
        result.value.best_choice_reasons[i].text
            \in {"Outperforms", "Lower volatility"}}

-----------------------------------------------------------------------------
\* C4 (as stated): the length of rankings equals the number of input assets
\* with usable metrics, and no asset without usable metrics is listed.
C4_Original ==
    IsReturned =>
        /\ Len(result.value.rankings) = Cardinality(Usable)
        /\ \A i \in 1..Len(result.value.rankings) :
              result.value.rankings[i].symbol \in Usable

\* C4 (amended): a normal result lists exactly the distinct input symbols
\* present in comparison_data, with or without usable metrics; the degraded
\* result lists every input symbol, in input order.
C4_RankingsListPresentAssets ==
    IsReturned =>
        LET r == result.value.rankings
        IN  IF IsDegraded
            THEN /\ Len(r) = Len(symbols)
                 /\ \A i \in 1..Len(r) : r[i].symbol = symbols[i]
            ELSE /\ Len(r) = Cardinality(Present)
                 /\ {r[i].symbol : i \in 1..Len(r)} = Present

\* a normal result that lists, behind two usable assets, an asset without
\* usable metrics
C4_Witness ==
    /\ IsNormal
    /\ Len(result.value.rankings) = 3
    /\ Cardinality(Usable) = 2
    /\ result.value.rankings[3].symbol \notin Usable
    /\ result.value.rankings[3].rationale = "Limited data available."

-----------------------------------------------------------------------------
\* C5 (as stated): whenever at least two assets have usable metrics, the
\* reasons of the result contain a reason comparing the rank-1 asset with the
\* rank-2 asset.
C5_Original ==
    (IsReturned /\ Cardinality(Usable) >= 2) =>
        \E i \in ComparativeReasons :
            /\ Len(result.value.rankings) >= 2
            /\ result.value.best_choice_reasons[i].versus
                  = result.value.rankings[2].symbol

\* C5 (amended): in a normal result that ranks at least two assets, the
\* reasons contain one comparison with the rank-2 asset exactly when the
\* rank-1 asset has the strictly greater total return (outperformance) or,
\* failing that, the strictly lower volatility; otherwise, and in the
\* degraded result, they contain none.
C5_ComparativeReasonWhenFavourable ==
    /\ IsDegraded => ComparativeReasons = {}
    /\ (IsNormal /\ Len(result.value.rankings) >= 2) =>
        LET r       == result.value.rankings
            reasons == result.value.best_choice_reasons
            best    == comparison_data[r[1].symbol].data
            second  == comparison_data[r[2].symbol].data
        IN  /\ Cardinality(ComparativeReasons) <= 1
            /\ \A i \in ComparativeReasons : reasons[i].versus = r[2].symbol
            /\ best.total_return > second.total_return =>
                  \E i \in ComparativeReasons : reasons[i].text = "Outperforms"
            /\ (best.total_return <= second.total_return
                    /\ best.volatility < second.volatility) =>
                  \E i \in ComparativeReasons : reasons[i].text = "Lower volatility"
            /\ (best.total_return <= second.total_return
                    /\ best.volatility >= second.volatility) =>
                  ComparativeReasons = {}

\* a normal result whose fourth reason is the lower volatility of the best
\* choice, which does not have the greater return
C5_Witness ==
    /\ IsNormal
    /\ Len(result.value.rankings) >= 2
    /\ Len(result.value.best_choice_reasons) = 4
    /\ result.value.best_choice_reasons[4]
          = Reason("Lower volatility", result.value.rankings[2].symbol)
    /\ comparison_data[result.value.rankings[1].symbol].data.total_return
          < comparison_data[result.value.rankings[2].symbol].data.total_return

-----------------------------------------------------------------------------
\* C6: when no input asset has usable metrics (no input symbol is in
\* comparison_data, or every present one has fewer than 2 bars), the ranker
\* returns the degraded result (its reasons flag insufficient data, every
\* listed score is 50) and does not raise.
C6_DegradedWhenNoneUsable ==
    (/\ pc = "done"
     /\ \A i \in 1..Len(symbols) :
           \/ symbols[i] \notin DOMAIN comparison_data
           \/ comparison_data[symbols[i]].data.bars < 2) =>
        /\ result.outcome = "returned"
        /\ result.value.best_choice_reasons[1].text
              = "Insufficient data available for comprehensive analysis"
        /\ \A i \in 1..Len(result.value.rankings) :
              result.value.rankings[i].score = 50

\* the call returned for an input with an absent symbol and a one-row asset
C6_Witness ==
    /\ IsReturned
    /\ Len(symbols) >= 2
    /\ \E i \in 1..Len(symbols) : symbols[i] \notin DOMAIN comparison_data
    /\ \E i \in 1..Len(symbols) :
          /\ symbols[i] \in DOMAIN comparison_data
          /\ comparison_data[symbols[i]].data.bars = 1
    /\ Usable = {}
    /\ Len(result.value.rankings) = Len(symbols)

-----------------------------------------------------------------------------
\* C7: whatever assets of the input have usable metrics, in any rank
\* position, the ranker returns a result and no exception reaches the caller.
C7_NeverRaises == pc = "done" => result.outcome = "returned"

-----------------------------------------------------------------------------
(* The adjustment tables as the specification words them: disjoint bands    *)
(* with strict lower ends, a value on a threshold belonging to the band     *)
(* below it.                                                                *)

TableReturn(x) ==
    CASE x > 30               -> 25
      [] x > 20  /\ x <= 30   -> 20
      [] x > 10  /\ x <= 20   -> 15
      [] x > 0   /\ x <= 10   -> 10
      [] x > -10 /\ x <= 0    -> 5
      [] x <= -10             -> -5

TableSharpe(x) ==
    CASE x > 20               -> 20
      [] x > 15 /\ x <= 20    -> 15
      [] x > 10 /\ x <= 15    -> 10
      [] x > 5  /\ x <= 10    -> 5
      [] x <= 5               -> 0

TableRsi(x) ==
    CASE x = NaN                                         -> 0
      [] x # NaN /\ x > 45 /\ x < 55                     -> 10
      [] x # NaN /\ x > 40 /\ x < 60 /\ (x <= 45 \/ x >= 55) -> 7
      [] x # NaN /\ x > 30 /\ x < 70 /\ (x <= 40 \/ x >= 60) -> 3
      [] x # NaN /\ (x <= 30 \/ x >= 70)                 -> 0

TableTrend(summary) ==
    IF "trend_signal" \notin DOMAIN summary THEN 0
    ELSE CASE summary.trend_signal = STRONG_UPTREND   -> 5
           [] summary.trend_signal = UPTREND          -> 3
           [] summary.trend_signal = STRONG_DOWNTREND -> -3
           [] summary.trend_signal = DOWNTREND        -> -3
           [] OTHER                                   -> 0

TableVolatility(x) ==
    CASE x < 15               -> 15
      [] x >= 15 /\ x < 20    -> 10
      [] x >= 20 /\ x < 30    -> 5
      [] x >= 30 /\ x < 40    -> 2
      [] x >= 40              -> 0

TableDrawdown(x) ==
    CASE x > -10              -> 10
      [] x > -15 /\ x <= -10  -> 7
      [] x > -20 /\ x <= -15  -> 5
      [] x > -30 /\ x <= -20  -> 2
      [] x <= -30             -> 0

TableMacd(summary) ==
    IF "macd_signal" \notin DOMAIN summary THEN 0
    ELSE CASE summary.macd_signal = "Bullish" -> 5
           [] summary.macd_signal = "Bearish" -> -2
           [] OTHER                           -> 0

\* the RSI read by the scorer: 50 when the summary has none
RsiOf(summary) ==
    IF "rsi_current" \in DOMAIN summary THEN summary.rsi_current ELSE 50

TableScore(e) ==
    LET total == 50 + TableReturn(e.data.total_return)
                    + TableSharpe(e.data.sharpe_ratio)
                    + TableRsi(RsiOf(e.summary))
                    + TableTrend(e.summary)
                    + TableVolatility(e.data.volatility)
                    + TableDrawdown(e.data.max_drawdown)
                    + TableMacd(e.summary)
    IN  IF total < 0 THEN 0 ELSE IF total > 100 THEN 100 ELSE total

-----------------------------------------------------------------------------
\* C8: for an asset with usable metrics the score is the clamp to [0,100] of
\* 50 plus the seven adjustments of the tables (total return, Sharpe, RSI
\* band, trend, volatility, max drawdown, MACD), every comparison strict, so
\* that a value on a threshold falls into the next band.
C8_ScoreIsClampedTableSum ==
    pc = "done" =>
        /\ \A i \in 1..Len(scores) :
              LET e == comparison_data[scores[i].symbol]
              IN  e.data.bars >= 2 => scores[i].score = TableScore(e)
        /\ IsNormal =>
              \A i \in 1..Len(result.value.rankings) :
                  LET e == comparison_data[result.value.rankings[i].symbol]
                  IN  e.data.bars >= 2 =>
                         result.value.rankings[i].score = TableScore(e)

\* an asset with every numeric value on a threshold: 50 + 5 + 0 + 7 + 0 + 0 + 0
\* + 0
C8_Witness ==
    /\ IsNormal
    /\ Len(scores) = 1
    /\ LET e == comparison_data[scores[1].symbol]
       IN  /\ e.data.total_return = 0
           /\ e.data.sharpe_ratio = 5
           /\ e.summary = Summary(45, SIDEWAYS, "Neutral")
           /\ e.data.volatility = 40
           /\ e.data.max_drawdown = -30
    /\ scores[1].score = 62
    /\ result.value.rankings[1].score = 62

-----------------------------------------------------------------------------
\* C9: the trend bonus is +5 for "Strong Uptrend", +3 for "Uptrend", -3 for
\* "Downtrend" and for "Strong Downtrend" alike, and 0 for "Sideways" or a
\* missing trend: the score is the clamp of the six other adjustments plus
\* that bonus.
C9_TrendBonusByFirstMatch ==
    pc = "done" =>
        \A i \in 1..Len(scores) :
            LET e       == comparison_data[scores[i].symbol]
                metrics == calculate_metrics(e.data)
                others  == 50 + ReturnPoints(metrics.total_return)
                              + SharpePoints(metrics.sharpe_ratio)
                              + RsiPoints(e.summary)
                              + VolatilityPoints(metrics.volatility)
                              + DrawdownPoints(metrics.max_drawdown)
                              + MacdPoints(e.summary)
            IN  e.data.bars >= 2 =>
                   scores[i].score = Clamp(others + TableTrend(e.summary))

\* a strong downtrend scored 3 below the same asset without a trend: 50 + 5
\* - 3
C9_Witness ==
    /\ pc = "done"
    /\ Len(scores) = 1
    /\ LET e == comparison_data[scores[1].symbol]
       IN  /\ e.data.total_return = 0
           /\ e.data.sharpe_ratio = 5
           /\ e.summary = Summary(70, STRONG_DOWNTREND, "Neutral")
           /\ e.data.volatility = 40
           /\ e.data.max_drawdown = -30
    /\ scores[1].score = 52

-----------------------------------------------------------------------------
\* the run of the ranker on one symbol of the input alone, with that
\* symbol's own entry of comparison_data
RunAlone(s) ==
    _generate_fallback_comparison(
        <<s>>, [t \in {s} \cap DOMAIN comparison_data |-> comparison_data[t]])

\* C10: the score of an asset depends on its own metrics and summary only:
\* the score a result reports for an asset is the score that the run on that
\* asset alone, with the same data, reports for it.
C10_ScoreOfOwnDataOnly ==
    IsReturned =>
        \A i \in 1..Len(result.value.rankings) :
            LET alone == RunAlone(result.value.rankings[i].symbol)
            IN  /\ alone.outcome = "returned"
                /\ result.value.rankings[i].score
                      = alone.value.rankings[1].score

-----------------------------------------------------------------------------
\* C11: for asset A (total return 25%, volatility 12%, Sharpe 1.8, drawdown
\* -8%, MACD Bullish, Strong Uptrend) and asset B (2%, 35%, 0.3, -25%,
\* Bearish, Downtrend), in either input order and for any RSI readings, the
\* ranker returns A at rank 1 and B at rank 2, a score of A above the score
\* of B, and best_choice A.
C11_StrongAssetRanksFirst ==
    pc = "done" =>
        /\ result.outcome = "returned"
        /\ Len(result.value.rankings) = 2
        /\ result.value.rankings[1].symbol = "A"
        /\ result.value.rankings[1].rank = 1
        /\ result.value.rankings[2].symbol = "B"
        /\ result.value.rankings[2].rank = 2
        /\ result.value.rankings[1].score > result.value.rankings[2].score
        /\ result.value.best_choice = "A"

\* B comes first in the input with its best RSI bonus, A with its worst
C11_Witness ==
    /\ IsReturned
    /\ symbols = <<"B", "A">>
    /\ comparison_data["B"].summary.rsi_current = 50
    /\ comparison_data["A"].summary.rsi_current = NaN
    /\ result.value.best_choice = "A"
    /\ result.value.rankings[1].score = 100
    /\ result.value.rankings[2].score = 69

-----------------------------------------------------------------------------
(***************************************************************************)
(* TechnicalAnalyzer (src/utils/technical_analysis.py).                    *)
(*                                                                         *)
(* A float of a pandas Series is an exact rational n/d in lowest terms,    *)
(* nan, or an infinity; the arithmetic follows IEEE 754 on the special     *)
(* values (x/0 is an infinity for x # 0 and nan for x = 0, inf - inf is    *)
(* nan, every comparison with nan is false).  Rounding is not modelled.    *)
(* A Series is the sequence of its floats; a DataFrame is                  *)
(* [id, len, cols]: the identity of the object, the number of rows and the *)
(* function from the names of its columns to their Series.                 *)
(***************************************************************************)

Abs(x) == IF x < 0 THEN -x ELSE x

RECURSIVE GCD(_, _)
GCD(a, b) == IF b = 0 THEN a ELSE GCD(b, a % b)

\* the float n/d, d # 0
Q(n, d) ==
    LET g == GCD(Abs(n), Abs(d))
        s == IF d < 0 THEN -1 ELSE 1
    IN  [kind |-> "num", n |-> (s * n) \div g, d |-> (s * d) \div g]

Float(i) == Q(i, 1)

FloatNaN == [kind |-> "nan"]

FloatInf(sign) == [kind |-> "inf", sign |-> sign]

IsNaN(x) == x.kind = "nan"

Sign(x) ==
    IF x.kind = "inf" THEN x.sign
    ELSE IF x.n > 0 THEN 1 ELSE IF x.n < 0 THEN -1 ELSE 0

FNeg(x) ==
    IF IsNaN(x) THEN FloatNaN
    ELSE IF x.kind = "inf" THEN FloatInf(-x.sign)
    ELSE Q(-x.n, x.d)

FAdd(x, y) ==
    IF IsNaN(x) \/ IsNaN(y) THEN FloatNaN
    ELSE IF x.kind = "inf"
         THEN IF y.kind = "inf" /\ y.sign # x.sign THEN FloatNaN ELSE x
    ELSE IF y.kind = "inf" THEN y
    ELSE Q(x.n * y.d + y.n * x.d, x.d * y.d)

FSub(x, y) == FAdd(x, FNeg(y))

FMul(x, y) ==
    IF IsNaN(x) \/ IsNaN(y) THEN FloatNaN
    ELSE IF x.kind = "inf" \/ y.kind = "inf"
         THEN IF Sign(x) = 0 \/ Sign(y) = 0 THEN FloatNaN
              ELSE FloatInf(Sign(x) * Sign(y))
    ELSE Q(x.n * y.n, x.d * y.d)

\* a zero divisor is the positive zero that a difference of equal floats and
\* a sum of zeros give
FDiv(x, y) ==
    IF IsNaN(x) \/ IsNaN(y) THEN FloatNaN
    ELSE IF x.kind = "inf"
         THEN IF y.kind = "inf" THEN FloatNaN
              ELSE FloatInf(x.sign * (IF Sign(y) < 0 THEN -1 ELSE 1))
    ELSE IF y.kind = "inf" THEN Float(0)
    ELSE IF y.n = 0
         THEN IF x.n = 0 THEN FloatNaN ELSE FloatInf(Sign(x))
    ELSE Q(x.n * y.d, x.d * y.n)

FAbs(x) == IF IsNaN(x) THEN FloatNaN ELSE IF Sign(x) < 0 THEN FNeg(x) ELSE x

\* x < y; false when either is nan
FloatLt(x, y) ==
    /\ ~IsNaN(x)
    /\ ~IsNaN(y)
    /\ IF x.kind = "num" /\ y.kind = "num"
       THEN x.n * y.d < y.n * x.d
       ELSE (IF x.kind = "inf" THEN x.sign ELSE 0)
              < (IF y.kind = "inf" THEN y.sign ELSE 0)

\* x > y; false when either is nan
FloatGt(x, y) == FloatLt(y, x)

\* the square root where it is a rational
Sqrt(x) ==
    IF IsNaN(x) \/ Sign(x) < 0 THEN FloatNaN
    ELSE IF x.kind = "inf" THEN x
    ELSE CHOOSE r \in {Q(a, b) : a \in 0..x.n, b \in 1..x.d} : FMul(r, r) = x

-----------------------------------------------------------------------------
(* Series operations of pandas *)

\* s1 - s2, element by element
SeriesSub(s1, s2) == [i \in 1..Len(s1) |-> FSub(s1[i], s2[i])]

\* Series.shift(): every value one row later, nan in the first row
shift(s) == [i \in 1..Len(s) |-> IF i = 1 THEN FloatNaN ELSE s[i - 1]]

\* Series.diff()
diff(s) == SeriesSub(s, shift(s))

\* the window of `window` rows that ends at row i
Window(s, i, window) == SubSeq(s, i - window + 1, i)

HasNaN(w) == \E j \in 1..Len(w) : IsNaN(w[j])

RECURSIVE FSum(_)
FSum(w) == IF w = << >> THEN Float(0) ELSE FAdd(FSum(Tail(w)), Head(w))

FMin(w) == CHOOSE x \in Range(w) : \A y \in Range(w) : ~FloatLt(y, x)

FMax(w) == CHOOSE x \in Range(w) : \A y \in Range(w) : ~FloatGt(y, x)

\* a rolling window has a value once it holds `window` observations that
\* are not nan
Full(s, i, window) == i >= window /\ ~HasNaN(Window(s, i, window))

\* faulty variant of rolling_mean: the mean of the rows there are
rolling_mean_MinPeriods(s, window) ==
    [i \in 1..Len(s) |->
        LET held == IF i < window THEN i ELSE window
        IN  IF ~HasNaN(Window(s, i, held))
            THEN FDiv(FSum(Window(s, i, held)), Float(held))
            ELSE FloatNaN]

\* Series.rolling(window=window).mean()
rolling_mean(s, window) ==
    [i \in 1..Len(s) |->
        IF Full(s, i, window)
        THEN FDiv(FSum(Window(s, i, window)), Float(window))
        ELSE FloatNaN]

\* Series.rolling(window=window).min()
rolling_min(s, window) ==
    [i \in 1..Len(s) |->
        IF Full(s, i, window) THEN FMin(Window(s, i, window)) ELSE FloatNaN]

\* Series.rolling(window=window).max()
rolling_max(s, window) ==
    [i \in 1..Len(s) |->
        IF Full(s, i, window) THEN FMax(Window(s, i, window)) ELSE FloatNaN]

\* the sample variance (ddof = 1) of a window
Variance(w) ==
    LET mean == FDiv(FSum(w), Float(Len(w)))
        sq   == [j \in 1..Len(w) |->
                    FMul(FSub(w[j], mean), FSub(w[j], mean))]
    IN  FDiv(FSum(sq), Float(Len(w) - 1))

\* Series.rolling(window=window).std()
rolling_std(s, window) ==
    [i \in 1..Len(s) |->
        IF Full(s, i, window)
        THEN Sqrt(Variance(Window(s, i, window)))
        ELSE FloatNaN]

\* the weighted sum of Series.ewm(span=span, adjust=True) up to row i:
\* weight ((span - 1) / (span + 1)) ^ k for the value k rows back
RECURSIVE EwmSum(_, _, _)
EwmSum(s, i, span) ==
    IF i = 0 THEN Float(0)
    ELSE FAdd(s[i], FMul(Q(span - 1, span + 1), EwmSum(s, i - 1, span)))

\* Series.ewm(span=span).mean() of a Series without nan
ewm_mean(s, span) ==
    [i \in 1..Len(s) |->
        FDiv(EwmSum(s, i, span),
             EwmSum([j \in 1..Len(s) |-> Float(1)], i, span))]

-----------------------------------------------------------------------------
(* The indicators of TechnicalAnalyzer *)

\* faulty variant of calculate_sma: a window that is not full is averaged
\* over the values it has
calculate_sma_Partial(data, window) ==
    [i \in 1..Len(data) |->
        IF i < window THEN FDiv(FSum(SubSeq(data, 1, i)), Float(i))
        ELSE FDiv(FSum(Window(data, i, window)), Float(window))]

calculate_sma(data, window) == rolling_mean(data, window)

calculate_ema(data, window) == ewm_mean(data, window)

\* delta.where(delta > 0, 0)
Gains(data) ==
    LET delta == diff(data)
    IN  [i \in 1..Len(data) |->
            IF FloatGt(delta[i], Float(0)) THEN delta[i] ELSE Float(0)]

\* -delta.where(delta < 0, 0)
Losses(data) ==
    LET delta == diff(data)
    IN  [i \in 1..Len(data) |->
            FNeg(IF FloatLt(delta[i], Float(0)) THEN delta[i] ELSE Float(0))]

AverageGain(data, window) == rolling_mean(Gains(data), window)

AverageLoss(data, window) == rolling_mean(Losses(data), window)

calculate_rsi(data, window) ==
    LET gain == AverageGain(data, window)
        loss == AverageLoss(data, window)
        rs   == [i \in 1..Len(data) |-> FDiv(gain[i], loss[i])]
    IN  [i \in 1..Len(data) |->
            FSub(Float(100), FDiv(Float(100), FAdd(Float(1), rs[i])))]

calculate_macd(data, fast, slow, signal) ==
    LET ema_fast       == calculate_ema(data, fast)
        ema_slow       == calculate_ema(data, slow)
        macd           == SeriesSub(ema_fast, ema_slow)
        macd_signal    == calculate_ema(macd, signal)
        macd_histogram == SeriesSub(macd, macd_signal)
    IN  [macd |-> macd, macd_signal |-> macd_signal,
         macd_histogram |-> macd_histogram]

calculate_bollinger_bands(data, window, num_std) ==
    LET sma == calculate_sma(data, window)
        std == rolling_std(data, window)
    IN  [upper_band |->
            [i \in 1..Len(data) |->
                FAdd(sma[i], FMul(std[i], Float(num_std)))],
         sma |-> sma,
         lower_band |->
            [i \in 1..Len(data) |->
                FSub(sma[i], FMul(std[i], Float(num_std)))]]

calculate_stochastic(high, low, close, k_window, d_window) ==
    LET lowest_low   == rolling_min(low, k_window)
        highest_high == rolling_max(high, k_window)
        k_percent    ==
            [i \in 1..Len(close) |->
                FMul(Float(100),
                     FDiv(FSub(close[i], lowest_low[i]),
                          FSub(highest_high[i], lowest_low[i])))]
    IN  [k_percent |-> k_percent,
         d_percent |-> rolling_mean(k_percent, d_window)]

calculate_williams_r(high, low, close, window) ==
    LET highest_high == rolling_max(high, window)
        lowest_low   == rolling_min(low, window)
    IN  [i \in 1..Len(close) |->
            FMul(Float(-100),
                 FDiv(FSub(highest_high[i], close[i]),
                      FSub(highest_high[i], lowest_low[i])))]

\* the largest of the values of a row that are not nan
RowMax(values) ==
    LET present == SelectSeq(values, LAMBDA v : ~IsNaN(v))
    IN  IF present = << >> THEN FloatNaN ELSE FMax(present)

calculate_adx(high, low, close, window) ==
    LET n        == Len(close)
        tr1      == SeriesSub(high, low)
        tr2      == [i \in 1..n |-> FAbs(FSub(high[i], shift(close)[i]))]
        tr3      == [i \in 1..n |-> FAbs(FSub(low[i], shift(close)[i]))]
        tr       == [i \in 1..n |-> RowMax(<<tr1[i], tr2[i], tr3[i]>>)]
        up       == SeriesSub(high, shift(high))
        down     == SeriesSub(shift(low), low)
        dm_plus  == [i \in 1..n |->
                        IF FloatGt(up[i], down[i]) /\ FloatGt(up[i], Float(0))
                        THEN up[i] ELSE Float(0)]
        dm_minus == [i \in 1..n |->
                        IF /\ FloatGt(down[i], dm_plus[i])
                           /\ FloatGt(down[i], Float(0))
                        THEN down[i] ELSE Float(0)]
        tr_smooth       == rolling_mean(tr, window)
        dm_plus_smooth  == rolling_mean(dm_plus, window)
        dm_minus_smooth == rolling_mean(dm_minus, window)
        di_plus  == [i \in 1..n |->
                        FMul(Float(100),
                             FDiv(dm_plus_smooth[i], tr_smooth[i]))]
        di_minus == [i \in 1..n |->
                        FMul(Float(100),
                             FDiv(dm_minus_smooth[i], tr_smooth[i]))]
        dx       == [i \in 1..n |->
                        FDiv(FMul(Float(100),
                                  FAbs(FSub(di_plus[i], di_minus[i]))),
                             FAdd(di_plus[i], di_minus[i]))]
    IN  rolling_mean(dx, window)

-----------------------------------------------------------------------------
(* DataFrames *)

\* DataFrame of the given columns and rows; a row is a record of integers
DataFrame(id, columns, rows) ==
    [id   |-> id,
     len  |-> Len(rows),
     cols |-> [c \in columns |-> [i \in 1..Len(rows) |-> Float(rows[i][c])]]]

\* DataFrame.empty: no row or no column
IsEmpty(frame) == frame.len = 0 \/ DOMAIN frame.cols = {}

\* the columns of a price frame that the analyzer reads
PriceColumns == {"high", "low", "close", "volume"}

-----------------------------------------------------------------------------
(* Calls of single indicators on the columns of a price frame *)

MaxLen == 4

MaxWindow == 3

\* the rows of the price frames: low <= close <= high
Bars ==
    {[high |-> h, low |-> l, close |-> c, volume |-> 10] :
        h \in 1..2, l \in 1..2, c \in 1..2} \cap
    {b \in [high : 1..2, low : 1..2, close : 1..2, volume : {10}] :
        b.low <= b.close /\ b.close <= b.high}

SeriesFrames ==
    {DataFrame(1, PriceColumns, rows) :
        rows \in UNION {[1..n -> Bars] : n \in 0..MaxLen}}

\* no comparison is part of a run of the analyzer
IdleComparison ==
    /\ symbols = << >>
    /\ comparison_data = << >>
    /\ scores = << >>
    /\ result = NoResult
    /\ pc = "idle"

InitIndicators ==
    /\ IdleComparison
    /\ IdleOther
    /\ price_data \in SeriesFrames
    /\ technical_data = NoResult
    /\ tech_summary = NoResult
    /\ indicator = NoResult

CalculateRsi ==
    /\ indicator = NoResult
    /\ \E window \in 1..MaxWindow :
          indicator' =
              [name   |-> "calculate_rsi",
               window |-> window,
               value  |-> calculate_rsi(price_data.cols["close"], window)]
    /\ UNCHANGED <<symbols, comparison_data, scores, result, pc>>
    /\ UNCHANGED <<price_data, technical_data, tech_summary>>
    /\ UNCHANGED other_vars

CalculateStochastic ==
    /\ indicator = NoResult
    /\ \E k_window \in 1..MaxWindow :
          indicator' =
              [name   |-> "calculate_stochastic",
               window |-> k_window,
               value  |-> calculate_stochastic(
                              price_data.cols["high"], price_data.cols["low"],
                              price_data.cols["close"], k_window, 3)]
    /\ UNCHANGED <<symbols, comparison_data, scores, result, pc>>
    /\ UNCHANGED <<price_data, technical_data, tech_summary>>
    /\ UNCHANGED other_vars

CalculateWilliamsR ==
    /\ indicator = NoResult
    /\ \E window \in 1..MaxWindow :
          indicator' =
              [name   |-> "calculate_williams_r",
               window |-> window,
               value  |-> calculate_williams_r(
                              price_data.cols["high"], price_data.cols["low"],
                              price_data.cols["close"], window)]
    /\ UNCHANGED <<symbols, comparison_data, scores, result, pc>>
    /\ UNCHANGED <<price_data, technical_data, tech_summary>>
    /\ UNCHANGED other_vars

NextIndicators == CalculateRsi \/ CalculateStochastic \/ CalculateWilliamsR

SpecIndicators == InitIndicators /\ [][NextIndicators]_vars

\* the indicator `name` has been computed
Called(name) == indicator # NoResult /\ indicator.name = name

-----------------------------------------------------------------------------
\* C19: the RSI is exactly 100 at every position whose trailing window is
\* full and has an average loss of 0, the positions whose average gain is 0
\* as well included.
C19_RsiIs100WithoutLosses ==
    Called("calculate_rsi") =>
        LET close == price_data.cols["close"]
            loss  == AverageLoss(close, indicator.window)
        IN  \A i \in 1..Len(close) :
                (i >= indicator.window /\ loss[i] = Float(0))
                    => indicator.value[i] = Float(100)

\* the part of C19 that the code satisfies: with an average loss of 0 and an
\* average gain above 0 the RSI is 100
RsiIs100WithGainsOnly ==
    Called("calculate_rsi") =>
        LET close == price_data.cols["close"]
            loss  == AverageLoss(close, indicator.window)
            gain  == AverageGain(close, indicator.window)
        IN  \A i \in 1..Len(close) :
                /\ (i >= indicator.window /\ loss[i] = Float(0)
                      /\ FloatGt(gain[i], Float(0)))
                      => indicator.value[i] = Float(100)
                /\ (i >= indicator.window /\ loss[i] = Float(0)
                      /\ gain[i] = Float(0))
                      => IsNaN(indicator.value[i])

-----------------------------------------------------------------------------
\* C20: at a position whose window is full and flat (the highest high of the
\* window equals its lowest low), the Stochastic %K is 50 and the
\* Williams %R is -50.
C20_FlatRangeGivesMidpoint ==
    LET high == price_data.cols["high"]
        low  == price_data.cols["low"]
        flat(i) ==
            /\ i >= indicator.window
            /\ rolling_max(high, indicator.window)[i]
                  = rolling_min(low, indicator.window)[i]
    IN  /\ Called("calculate_stochastic") =>
               \A i \in 1..price_data.len :
                   flat(i) => indicator.value.k_percent[i] = Float(50)
        /\ Called("calculate_williams_r") =>
               \A i \in 1..price_data.len :
                   flat(i) => indicator.value[i] = Float(-50)

\* what the code gives in a flat window: nan for both indicators
FlatRangeGivesNaN ==
    LET high == price_data.cols["high"]
        low  == price_data.cols["low"]
        flat(i) ==
            /\ i >= indicator.window
            /\ rolling_max(high, indicator.window)[i]
                  = rolling_min(low, indicator.window)[i]
    IN  /\ Called("calculate_stochastic") =>
               \A i \in 1..price_data.len :
                   flat(i) => IsNaN(indicator.value.k_percent[i])
        /\ Called("calculate_williams_r") =>
               \A i \in 1..price_data.len :
                   flat(i) => IsNaN(indicator.value[i])

-----------------------------------------------------------------------------
(* TechnicalAnalyzer.calculate_all_indicators *)

calculate_support_resistance(data, window) ==
    [support    |-> rolling_min(data.cols["low"], window),
     resistance |-> rolling_max(data.cols["high"], window)]

\* the columns that calculate_all_indicators adds
IndicatorColumns ==
    {"sma_20", "sma_50", "ema_12", "ema_26", "rsi", "macd", "macd_signal",
     "macd_histogram", "bb_upper", "bb_middle", "bb_lower", "stoch_k",
     "stoch_d", "williams_r", "adx", "support", "resistance"}

\* data.copy(): a new object with the same rows and columns
copy(data, id) == [data EXCEPT !.id = id]

\* result[name] = series, for every name of `new`
SetColumns(panel, new) ==
    [panel EXCEPT !.cols =
        [c \in DOMAIN panel.cols \cup DOMAIN new |->
            IF c \in DOMAIN new THEN new[c] ELSE panel.cols[c]]]

\* the statements of the try block after the copy, in order
NumSteps == 11

\* the columns of `data` that statement k subscripts; a column that is not
\* there raises KeyError
Needs(k) ==
    CASE k \in 1..7  -> {"close"}
      [] k \in 8..10 -> {"high", "low", "close"}
      [] k = 11      -> {"low", "high"}

\* the panel (`result`) after statement k
Step(k, panel, data) ==
    CASE k = 1 ->
           SetColumns(panel, [sma_20 |-> calculate_sma(data.cols["close"], 20)])
      [] k = 2 ->
           SetColumns(panel, [sma_50 |-> calculate_sma(data.cols["close"], 50)])
      [] k = 3 ->
           SetColumns(panel, [ema_12 |-> calculate_ema(data.cols["close"], 12)])
      [] k = 4 ->
           SetColumns(panel, [ema_26 |-> calculate_ema(data.cols["close"], 26)])
      [] k = 5 ->
           SetColumns(panel, [rsi |-> calculate_rsi(data.cols["close"], 14)])
      [] k = 6 ->
           SetColumns(panel, calculate_macd(data.cols["close"], 12, 26, 9))
      [] k = 7 ->
           LET bb == calculate_bollinger_bands(data.cols["close"], 20, 2)
           IN  SetColumns(panel, [bb_upper  |-> bb.upper_band,
                                   bb_middle |-> bb.sma,
                                   bb_lower  |-> bb.lower_band])
      [] k = 8 ->
           LET st == calculate_stochastic(data.cols["high"], data.cols["low"],
                                          data.cols["close"], 14, 3)
           IN  SetColumns(panel, [stoch_k |-> st.k_percent,
                                   stoch_d |-> st.d_percent])
      [] k = 9 ->
           SetColumns(panel,
               [williams_r |->
                   calculate_williams_r(data.cols["high"], data.cols["low"],
                                        data.cols["close"], 14)])
      [] k = 10 ->
           SetColumns(panel,
               [adx |-> calculate_adx(data.cols["high"], data.cols["low"],
                                      data.cols["close"], 14)])
      [] k = 11 ->
           SetColumns(panel, calculate_support_resistance(data, 20))

\* the try block from statement k on: the panel it returns, or the
\* exception of the first statement that fails
RECURSIVE TryBlock(_, _, _)
TryBlock(panel, data, k) ==
    IF k > NumSteps THEN Returned(panel)
    ELSE IF ~(Needs(k) \subseteq DOMAIN data.cols) THEN Raised("KeyError")
    ELSE TryBlock(Step(k, panel, data), data, k + 1)

\* faulty variant of calculate_all_indicators: the columns are added to the
\* input frame itself
calculate_all_indicators_InPlace(data) ==
    LET body == TryBlock(data, data, 1)
    IN  IF body.outcome = "raised" THEN data ELSE body.value

\* the copy is a new object; `except Exception` returns the input object
calculate_all_indicators(data) ==
    LET body == TryBlock(copy(data, data.id + 1), data, 1)
    IN  IF body.outcome = "raised" THEN data ELSE body.value

-----------------------------------------------------------------------------
(* TechnicalAnalyzer.get_technical_summary *)

\* faulty variant of LatestGet: the default replaces a nan as well
LatestGet_NanDefault(panel, column, default) ==
    IF column \in DOMAIN panel.cols /\ ~IsNaN(panel.cols[column][panel.len])
    THEN panel.cols[column][panel.len]
    ELSE default

\* latest.get(column, default), latest being the last row
LatestGet(panel, column, default) ==
    IF column \in DOMAIN panel.cols
    THEN panel.cols[column][panel.len]
    ELSE default

RsiSignal(rsi_current) ==
    IF FloatGt(rsi_current, Float(70)) THEN "Overbought"
    ELSE IF FloatLt(rsi_current, Float(30)) THEN "Oversold"
    ELSE "Neutral"

MacdSignal(macd_current, macd_signal_current) ==
    IF FloatGt(macd_current, macd_signal_current) THEN "Bullish"
    ELSE IF FloatLt(macd_current, macd_signal_current) THEN "Bearish"
    ELSE "Neutral"

\* faulty variant of TrendSignal: the plain tests come before the strong ones
TrendSignal_PlainFirst(price_current, sma_20, sma_50) ==
    IF FloatGt(price_current, sma_20) THEN UPTREND
    ELSE IF FloatGt(price_current, sma_20) /\ FloatGt(sma_20, sma_50)
         THEN STRONG_UPTREND
    ELSE IF FloatLt(price_current, sma_20) THEN DOWNTREND
    ELSE IF FloatLt(price_current, sma_20) /\ FloatLt(sma_20, sma_50)
         THEN STRONG_DOWNTREND
    ELSE SIDEWAYS

\* a > b > c is (a > b) and (b > c)
TrendSignal(price_current, sma_20, sma_50) ==
    IF FloatGt(price_current, sma_20) /\ FloatGt(sma_20, sma_50)
    THEN STRONG_UPTREND
    ELSE IF FloatGt(price_current, sma_20) THEN UPTREND
    ELSE IF FloatLt(price_current, sma_20) /\ FloatLt(sma_20, sma_50)
         THEN STRONG_DOWNTREND
    ELSE IF FloatLt(price_current, sma_20) THEN DOWNTREND
    ELSE SIDEWAYS

\* faulty variant of VolumeSignal: the thresholds are inclusive
VolumeSignal_Inclusive(panel) ==
    IF panel.len > 1
    THEN LET avg_volume ==
                 rolling_mean(panel.cols["volume"], 20)
                     [panel.len]
             current_volume == LatestGet(panel, "volume", Float(0))
         IN  IF ~FloatLt(current_volume, FMul(avg_volume, Q(3, 2)))
             THEN "High Volume"
             ELSE IF ~FloatGt(current_volume, FMul(avg_volume, Q(1, 2)))
                  THEN "Low Volume"
             ELSE "Normal Volume"
    ELSE "Normal Volume"

\* the volume analysis, for a panel that has a volume column or one row
VolumeSignal(panel) ==
    IF panel.len > 1
    THEN LET avg_volume ==
                 rolling_mean(panel.cols["volume"], 20)
                     [panel.len]
             current_volume == LatestGet(panel, "volume", Float(0))
         IN  IF FloatGt(current_volume, FMul(avg_volume, Q(3, 2)))
             THEN "High Volume"
             ELSE IF FloatLt(current_volume, FMul(avg_volume, Q(1, 2)))
                  THEN "Low Volume"
             ELSE "Normal Volume"
    ELSE "Normal Volume"

BollingerPosition(price_current, bb_upper, bb_lower) ==
    IF FloatGt(price_current, bb_upper) THEN "Above Upper Band"
    ELSE IF FloatLt(price_current, bb_lower) THEN "Below Lower Band"
    ELSE "Within Bands"

BullishSignals(rsi_signal, macd_signal, trend_signal) ==
    (IF rsi_signal = "Oversold" THEN 1 ELSE 0)
    + (IF macd_signal = "Bullish" THEN 1 ELSE 0)
    + (IF Contains(<<"Uptrend">>, trend_signal) THEN 1 ELSE 0)

BearishSignals(rsi_signal, macd_signal, trend_signal) ==
    (IF rsi_signal = "Oversold" THEN 0
     ELSE IF rsi_signal = "Overbought" THEN 1 ELSE 0)
    + (IF macd_signal = "Bullish" THEN 0
       ELSE IF macd_signal = "Bearish" THEN 1 ELSE 0)
    + (IF Contains(<<"Uptrend">>, trend_signal) THEN 0
       ELSE IF Contains(<<"Downtrend">>, trend_signal) THEN 1 ELSE 0)

\* faulty variant of OverallSignal: two agreeing signals are required
OverallSignal_TwoVotes(bullish_signals, bearish_signals) ==
    IF bullish_signals > bearish_signals + 1
    THEN "Bullish - Consider buying on dips"
    ELSE IF bearish_signals > bullish_signals + 1
         THEN "Bearish - Consider selling on rallies"
    ELSE "Neutral - Wait for clearer signals"

OverallSignal(bullish_signals, bearish_signals) ==
    IF bullish_signals > bearish_signals
    THEN "Bullish - Consider buying on dips"
    ELSE IF bearish_signals > bullish_signals
         THEN "Bearish - Consider selling on rallies"
    ELSE "Neutral - Wait for clearer signals"

\* the returned dict; {} for an empty panel and when the volume column of a
\* panel of two rows or more is missing (KeyError, caught)
get_technical_summary(panel) ==
    IF IsEmpty(panel) THEN << >>
    ELSE IF panel.len > 1
            /\ "volume" \notin DOMAIN panel.cols
         THEN << >>
    ELSE
    LET rsi_current   == LatestGet(panel, "rsi", Float(50))
        rsi_signal    == RsiSignal(rsi_current)
        macd_signal   == MacdSignal(
                             LatestGet(panel, "macd", Float(0)),
                             LatestGet(panel, "macd_signal", Float(0)))
        price_current == LatestGet(panel, "close", Float(0))
        trend_signal  == TrendSignal(
                             price_current,
                             LatestGet(panel, "sma_20", Float(0)),
                             LatestGet(panel, "sma_50", Float(0)))
    IN  [rsi_current        |-> rsi_current,
         rsi_signal         |-> rsi_signal,
         macd_signal        |-> macd_signal,
         trend_signal       |-> trend_signal,
         volume_signal      |-> VolumeSignal(panel),
         bollinger_position |->
             BollingerPosition(
                 price_current,
                 LatestGet(panel, "bb_upper", Float(0)),
                 LatestGet(panel, "bb_lower", Float(0))),
         momentum_signal    |-> rsi_signal,
         overall_signal     |->
             OverallSignal(
                 BullishSignals(rsi_signal, macd_signal, trend_signal),
                 BearishSignals(rsi_signal, macd_signal, trend_signal))]

-----------------------------------------------------------------------------
(* The price frames handed to calculate_all_indicators *)

MaxRows == 1

\* the rows of the price frames: low <= close <= high, two volumes
PanelBars ==
    {b \in [high : 1..3, low : 1..3, close : 1..3, volume : {10, 30}] :
        b.low <= b.close /\ b.close <= b.high}

\* the column sets of the frames: the frame of a failed fetch has no column,
\* a fetched frame has them all; the others lack the columns one of the
\* statements of calculate_all_indicators or get_technical_summary reads
ColumnSets ==
    {PriceColumns, {"close", "volume"}, {"high", "low", "volume"},
     {"high", "low", "close"}}

PriceFrames ==
    {DataFrame(1, {}, << >>)} \cup
    {DataFrame(1, columns, rows) :
        columns \in ColumnSets,
        rows \in UNION {[1..n -> PanelBars] : n \in 0..MaxRows}}

-----------------------------------------------------------------------------
(* The panels handed to get_technical_summary.  The summary reads the last *)
(* row and the volume column: every column but volume holds nan until its  *)
(* window is full and the drawn last-row value from then on; the volume    *)
(* column holds a base volume in every row but the last.                   *)

PanelLengths == {1, 2, 19, 20, 21, 50}

\* the first row at which a column of the panel can have a value
WarmUp(column) ==
    CASE column \in {"sma_20", "bb_upper", "bb_middle", "bb_lower",
                     "support", "resistance"} -> 20
      [] column = "sma_50" -> 50
      [] column \in {"rsi", "stoch_k", "williams_r"} -> 14
      [] column = "stoch_d" -> 16
      [] column = "adx" -> 27
      [] OTHER -> 1

\* the column that holds v once its window is full
Column(column, n, v) ==
    [i \in 1..n |-> IF i < WarmUp(column) THEN FloatNaN ELSE v]

Panel(n, close, sma_20, sma_50, rsi, macd, bb, volume) ==
    [id   |-> 2,
     len  |-> n,
     cols |->
        [c \in PriceColumns \cup IndicatorColumns |->
            CASE c = "volume" ->
                   [i \in 1..n |->
                       Float(IF i < n THEN volume.base ELSE volume.last)]
              [] c \in {"close", "high", "low", "ema_12", "ema_26",
                        "support", "resistance"} -> Column(c, n, close)
              [] c \in {"sma_20", "bb_middle"} -> Column(c, n, sma_20)
              [] c = "sma_50" -> Column(c, n, sma_50)
              [] c = "rsi" -> Column(c, n, rsi)
              [] c = "macd" -> Column(c, n, macd.macd)
              [] c = "macd_signal" -> Column(c, n, macd.macd_signal)
              [] c = "macd_histogram" ->
                   Column(c, n, FSub(macd.macd, macd.macd_signal))
              [] c = "bb_upper" -> Column(c, n, bb.upper)
              [] c = "bb_lower" -> Column(c, n, bb.lower)
              [] OTHER -> Column(c, n, FloatNaN)]]

\* the panel without some of its columns
Without(panel, columns) ==
    [panel EXCEPT
        !.cols = [c \in DOMAIN panel.cols \ columns |-> panel.cols[c]]]

PanelClose == Float(3)

PanelSma20s == {Float(2), Float(3), Float(4), FloatNaN}

PanelSma50s == {Float(1), Float(2), Float(4), Float(5), FloatNaN}

PanelRsis == {Float(25), Float(30), Float(50), Float(70), Float(75), FloatNaN}

PanelMacds ==
    {[macd |-> Float(1), macd_signal |-> Float(2)],
     [macd |-> Float(2), macd_signal |-> Float(2)],
     [macd |-> Float(2), macd_signal |-> Float(1)]}

PanelBands ==
    {[upper |-> Float(4), lower |-> Float(2)],
     [upper |-> Float(2), lower |-> Float(1)],
     [upper |-> Float(5), lower |-> Float(4)]}

\* volumes around the two thresholds: with 19 rows of 37 the latest volume
\* 57 is 1.5 times the mean of 20 rows, with 19 rows of 39 the latest
\* volume 19 is half of it
PanelVolumes ==
    {[base |-> 10, last |-> 10], [base |-> 10, last |-> 100],
     [base |-> 10, last |-> 1],
     [base |-> 37, last |-> 57], [base |-> 37, last |-> 58],
     [base |-> 39, last |-> 19], [base |-> 39, last |-> 18]}

\* the panels of n rows: every combination of the values the three voters
\* of the overall signal read, and every combination of band and volume
FullPanels(n) ==
    {Panel(n, PanelClose, sma_20, sma_50, rsi, macd,
           [upper |-> Float(4), lower |-> Float(2)],
           [base |-> 10, last |-> 10]) :
        sma_20 \in PanelSma20s, sma_50 \in PanelSma50s,
        rsi \in PanelRsis, macd \in PanelMacds} \cup
    {Panel(n, PanelClose, Float(2), Float(1), Float(50),
           [macd |-> Float(2), macd_signal |-> Float(2)], bb, volume) :
        bb \in PanelBands, volume \in PanelVolumes}

\* what calculate_all_indicators returns for a frame that lacks a price
\* column: the frame itself, or the panel without a volume column
PartialPanels ==
    {DataFrame(1, {}, << >>)} \cup
    {DataFrame(1, columns, [i \in 1..n |-> bar]) :
        columns \in {{"close", "volume"}, {"high", "low", "volume"}},
        n \in 0..2, bar \in {b \in PanelBars : b.high = 3 /\ b.low = 1}} \cup
    {Without(Panel(n, PanelClose, Float(2), Float(1), rsi, macd,
                   [upper |-> Float(4), lower |-> Float(2)],
                   [base |-> 10, last |-> 10]), {"volume"}) :
        n \in {1, 2, 50}, rsi \in {Float(25), Float(75)}, macd \in PanelMacds}

SummaryPanels(n) == FullPanels(n) \cup PartialPanels

-----------------------------------------------------------------------------
(* The state machine of the analyzer: the panel is built from a price      *)
(* frame and summarised, or a drawn panel is summarised                    *)

InitPanel ==
    /\ IdleComparison
    /\ IdleOther
    /\ price_data \in PriceFrames
    /\ technical_data = NoResult
    /\ tech_summary = NoResult
    /\ indicator = NoResult

InitSummary ==
    /\ IdleComparison
    /\ IdleOther
    /\ price_data = NoResult
    /\ \E n \in PanelLengths :
          technical_data \in {Returned(panel) : panel \in SummaryPanels(n)}
    /\ tech_summary = NoResult
    /\ indicator = NoResult

\* technical_data = calculate_all_indicators(stock_data)
CalculateAllIndicators ==
    /\ price_data # NoResult
    /\ technical_data = NoResult
    /\ technical_data' = Returned(calculate_all_indicators(price_data))
    /\ UNCHANGED <<symbols, comparison_data, scores, result, pc>>
    /\ UNCHANGED <<price_data, tech_summary, indicator>>
    /\ UNCHANGED other_vars

\* tech_summary = get_technical_summary(technical_data)
GetTechnicalSummary ==
    /\ technical_data # NoResult
    /\ tech_summary = NoResult
    /\ tech_summary' = Returned(get_technical_summary(technical_data.value))
    /\ UNCHANGED <<symbols, comparison_data, scores, result, pc>>
    /\ UNCHANGED <<price_data, technical_data, indicator>>
    /\ UNCHANGED other_vars

NextPanel == CalculateAllIndicators \/ GetTechnicalSummary

NextSummary == GetTechnicalSummary

SpecPanel == InitPanel /\ [][NextPanel]_vars

SpecSummary == InitSummary /\ [][NextSummary]_vars

\* the summary has been computed and is not the empty dict
Summarised == tech_summary # NoResult /\ tech_summary.value # << >>

\* the value of the last row of the panel in a column, nan included; Missing
\* when the panel does not have the column
Missing == [kind |-> "missing"]

Latest(column) == LatestGet(technical_data.value, column, Missing)

-----------------------------------------------------------------------------
\* the columns that statement k of the try block adds to the panel
Adds(k) ==
    CASE k = 1  -> {"sma_20"}
      [] k = 2  -> {"sma_50"}
      [] k = 3  -> {"ema_12"}
      [] k = 4  -> {"ema_26"}
      [] k = 5  -> {"rsi"}
      [] k = 6  -> {"macd", "macd_signal", "macd_histogram"}
      [] k = 7  -> {"bb_upper", "bb_middle", "bb_lower"}
      [] k = 8  -> {"stoch_k", "stoch_d"}
      [] k = 9  -> {"williams_r"}
      [] k = 10 -> {"adx"}
      [] k = 11 -> {"support", "resistance"}

\* C12: the failure of one indicator in calculate_all_indicators is isolated:
\* the panel always has the full set of indicator columns, the columns of the
\* indicators that can be computed hold their values (those before and those
\* after the failing one), and the columns of a failing indicator hold
\* missing values only.
C12_FailureIsolatedPerIndicator ==
    (price_data # NoResult /\ technical_data # NoResult) =>
        LET panel == technical_data.value
        IN  \A k \in 1..NumSteps : \A c \in Adds(k) :
                /\ c \in DOMAIN panel.cols
                /\ IF Needs(k) \subseteq DOMAIN price_data.cols
                   THEN panel.cols[c]
                          = Step(k, price_data, price_data).cols[c]
                   ELSE \A i \in 1..panel.len : IsNaN(panel.cols[c][i])

\* what the code does: the panel has the indicator columns only when every
\* statement succeeds; after any failure it is the input frame
AllOrNothing ==
    (price_data # NoResult /\ technical_data # NoResult) =>
        LET panel == technical_data.value
        IN  IF {"high", "low", "close"} \subseteq DOMAIN price_data.cols
            THEN DOMAIN panel.cols = DOMAIN price_data.cols \cup IndicatorColumns
            ELSE panel = price_data

-----------------------------------------------------------------------------
\* C13: for an empty price frame, calculate_all_indicators returns an empty
\* panel without raising, get_technical_summary of that panel returns the
\* neutral defaults (rsi_current 50 and overall_signal "Neutral - Wait for
\* clearer signals" are entries of the returned summary), and
\* calculate_metrics returns None.
C13_EmptyInputGivesNeutralDefaults ==
    (price_data # NoResult /\ price_data.len = 0 /\ tech_summary # NoResult) =>
        /\ technical_data.outcome = "returned"
        /\ IsEmpty(technical_data.value)
        /\ tech_summary.outcome = "returned"
        /\ "rsi_current" \in DOMAIN tech_summary.value
        /\ tech_summary.value.rsi_current = Float(50)
        /\ "overall_signal" \in DOMAIN tech_summary.value
        /\ tech_summary.value.overall_signal
              = "Neutral - Wait for clearer signals"
        /\ calculate_metrics(Frame(price_data.len, 0, 0, 0, 0)) = None

\* what the code does for an empty price frame: the summary is the empty dict
EmptyInputGivesEmptySummary ==
    (price_data # NoResult /\ price_data.len = 0 /\ tech_summary # NoResult) =>
        /\ IsEmpty(technical_data.value)
        /\ tech_summary = Returned(<< >>)
        /\ calculate_metrics(Frame(price_data.len, 0, 0, 0, 0)) = None

-----------------------------------------------------------------------------
\* a last-row value that is missing: the column is absent or the value is nan
IsMissing(column) == Latest(column) = Missing \/ IsNaN(Latest(column))

\* C14: in the summary, a field whose underlying last-row value is missing
\* (column absent, or value nan) has its default: rsi_current is 50,
\* trend_signal is "Neutral", macd_signal is "Neutral"; the call does not
\* raise.
C14_MissingValuesGiveDefaults ==
    tech_summary # NoResult =>
        /\ tech_summary.outcome = "returned"
        /\ Summarised =>
              /\ IsMissing("rsi")
                    => tech_summary.value.rsi_current = Float(50)
              /\ (IsMissing("close") \/ IsMissing("sma_20")
                     \/ IsMissing("sma_50"))
                    => tech_summary.value.trend_signal = <<"Neutral">>
              /\ (IsMissing("macd") \/ IsMissing("macd_signal"))
                    => tech_summary.value.macd_signal = "Neutral"

-----------------------------------------------------------------------------
\* the value get_technical_summary reads in a column: 0 when the column is
\* absent
Read(column) == LatestGet(technical_data.value, column, Float(0))

\* C15: trend_signal is decided by the first match of: close > sma_20 >
\* sma_50 "Strong Uptrend"; close > sma_20 "Uptrend"; close < sma_20 <
\* sma_50 "Strong Downtrend"; close < sma_20 "Downtrend"; otherwise
\* "Sideways".  With close equal to sma_20 it is "Sideways".
C15_TrendByFirstMatch ==
    Summarised =>
        LET close  == Read("close")
            sma_20 == Read("sma_20")
            sma_50 == Read("sma_50")
            trend  == tech_summary.value.trend_signal
        IN  /\ trend = STRONG_UPTREND
                 <=> (FloatGt(close, sma_20) /\ FloatGt(sma_20, sma_50))
            /\ trend = UPTREND
                 <=> (FloatGt(close, sma_20) /\ ~FloatGt(sma_20, sma_50))
            /\ trend = STRONG_DOWNTREND
                 <=> (FloatLt(close, sma_20) /\ FloatLt(sma_20, sma_50))
            /\ trend = DOWNTREND
                 <=> (FloatLt(close, sma_20) /\ ~FloatLt(sma_20, sma_50))
            /\ trend = SIDEWAYS
                 <=> (~FloatGt(close, sma_20) /\ ~FloatLt(close, sma_20))
            /\ close = sma_20 => trend = SIDEWAYS

\* close equals sma_20 below sma_50: "Sideways"
C15_Witness ==
    /\ Summarised
    /\ Latest("close") = Float(3)
    /\ Latest("sma_20") = Float(3)
    /\ Latest("sma_50") = Float(5)
    /\ tech_summary.value.trend_signal = SIDEWAYS

-----------------------------------------------------------------------------
\* the voters of the overall signal
Voters == {"rsi", "macd", "trend"}

VotesBullish(summary, voter) ==
    CASE voter = "rsi"   -> summary.rsi_signal = "Oversold"
      [] voter = "macd"  -> summary.macd_signal = "Bullish"
      [] voter = "trend" -> Contains(<<"Uptrend">>, summary.trend_signal)

VotesBearish(summary, voter) ==
    CASE voter = "rsi"   -> summary.rsi_signal = "Overbought"
      [] voter = "macd"  -> summary.macd_signal = "Bearish"
      [] voter = "trend" -> Contains(<<"Downtrend">>, summary.trend_signal)

\* C16: overall_signal is the tally of three voters (RSI: Oversold bullish,
\* Overbought bearish; MACD: Bullish, Bearish; trend: contains "Uptrend",
\* contains "Downtrend"): more bullish votes give "Bullish - Consider buying
\* on dips", more bearish votes "Bearish - Consider selling on rallies", a
\* tie "Neutral - Wait for clearer signals"; momentum_signal equals
\* rsi_signal.
C16_OverallSignalIsTally ==
    Summarised =>
        LET summary == tech_summary.value
            bullish == Cardinality({v \in Voters : VotesBullish(summary, v)})
            bearish == Cardinality({v \in Voters : VotesBearish(summary, v)})
        IN  /\ bullish > bearish
                 => summary.overall_signal = "Bullish - Consider buying on dips"
            /\ bearish > bullish
                 => summary.overall_signal
                       = "Bearish - Consider selling on rallies"
            /\ bullish = bearish
                 => summary.overall_signal
                       = "Neutral - Wait for clearer signals"
            /\ summary.momentum_signal = summary.rsi_signal

\* two bullish votes against one bearish vote
C16_Witness ==
    /\ Summarised
    /\ tech_summary.value.rsi_signal = "Overbought"
    /\ tech_summary.value.macd_signal = "Bullish"
    /\ tech_summary.value.trend_signal = STRONG_UPTREND
    /\ tech_summary.value.overall_signal = "Bullish - Consider buying on dips"
    /\ tech_summary.value.momentum_signal = "Overbought"

-----------------------------------------------------------------------------
\* the sum of the integer volumes of a window
RECURSIVE VolumeSum(_)
VolumeSum(w) == IF w = << >> THEN 0 ELSE Head(w).n + VolumeSum(Tail(w))

-----------------------------------------------------------------------------
\* C18: calculate_all_indicators leaves the input frame unchanged and returns
\* a panel that is another object than the input, on the success path and on
\* the failure path; a second call on the same frame gives a panel of the
\* same columns and values.
C18_InputUnchangedPanelSeparate ==
    [][CalculateAllIndicators =>
          /\ price_data' = price_data
          /\ technical_data'.value.id # price_data.id
          /\ LET again == calculate_all_indicators(price_data')
             IN  /\ again.len = technical_data'.value.len
                 /\ again.cols = technical_data'.value.cols]_vars

\* what the code does: a new object on the success path only
SeparateOnSuccessOnly ==
    [][CalculateAllIndicators =>
          /\ price_data' = price_data
          /\ (technical_data'.value.id # price_data.id)
                <=> ({"high", "low", "close"} \subseteq DOMAIN price_data.cols)]_vars

-----------------------------------------------------------------------------
(***************************************************************************)
(* StockComparison.calculate_metrics on the rows of a price frame          *)
(* (src/components/comparison.py).  The ranker above reads the outcome of  *)
(* this function only; here it is computed from the columns.  The product  *)
(* of a float and a square root is kept as coef * sqrt(radicand).          *)
(***************************************************************************)

\* coef * sqrt(radicand), radicand >= 0
Surd(coef, radicand) ==
    IF IsNaN(coef) \/ IsNaN(radicand) THEN FloatNaN
    ELSE IF Sign(coef) = 0 \/ Sign(radicand) = 0 THEN Float(0)
    ELSE [kind |-> "surd", coef |-> coef, radicand |-> radicand]

\* Series.pct_change()
pct_change(s) ==
    [i \in 1..Len(s) |->
        IF i = 1 THEN FloatNaN ELSE FSub(FDiv(s[i], s[i - 1]), Float(1))]

\* Series.dropna()
dropna(s) == SelectSeq(s, LAMBDA v : ~IsNaN(v))

\* Series.mean()
mean(s) == FDiv(FSum(s), Float(Len(s)))

\* (1 + returns).cumprod() at row i
RECURSIVE CumProd(_, _)
CumProd(returns, i) ==
    IF i = 0 THEN Float(1)
    ELSE FMul(CumProd(returns, i - 1), FAdd(Float(1), returns[i]))

\* returns.std() * (252 ** 0.5) * 100
Volatility(returns) ==
    Surd(Float(100), FMul(Variance(returns), Float(252)))

\* faulty variant of SharpeRatio: no test of the standard deviation
SharpeRatio_NoGuard(returns) ==
    LET risk_free_rate == Q(2, 100)
        excess_mean    == FSub(mean(returns),
                               FDiv(risk_free_rate, Float(252)))
    IN  Surd(excess_mean, FDiv(Float(252), Variance(returns)))

\* excess_returns.mean() / returns.std() * (252 ** 0.5), 0 when the standard
\* deviation is 0
SharpeRatio(returns) ==
    LET risk_free_rate == Q(2, 100)
        excess_mean    == FSub(mean(returns),
                               FDiv(risk_free_rate, Float(252)))
    IN  IF Variance(returns) # Float(0)
        THEN Surd(excess_mean, FDiv(Float(252), Variance(returns)))
        ELSE Float(0)

\* drawdown.min() * 100
MaxDrawdown(returns) ==
    LET cumulative  == [i \in 1..Len(returns) |-> CumProd(returns, i)]
        running_max == [i \in 1..Len(returns) |->
                           FMax(SubSeq(cumulative, 1, i))]
        drawdown    == [i \in 1..Len(returns) |->
                           FSub(FDiv(cumulative[i], running_max[i]), Float(1))]
    IN  FMul(FMin(drawdown), Float(100))

\* faulty variant of calculate_metrics_frame: one row is enough
calculate_metrics_frame_OneRow(data) ==
    IF IsEmpty(data) \/ data.len < 1 THEN None
    ELSE IF ~(PriceColumns \subseteq DOMAIN data.cols) THEN None
    ELSE [current_price |-> data.cols["close"][data.len]]

\* calculate_metrics(stock_data) for a DataFrame; a missing column raises
\* KeyError inside the try block, and the handler returns None
calculate_metrics_frame(data) ==
    IF IsEmpty(data) \/ data.len < 2 THEN None
    ELSE IF ~(PriceColumns \subseteq DOMAIN data.cols) THEN None
    ELSE
    LET close          == data.cols["close"]
        current_price  == close[data.len]
        start_price    == close[1]
        returns        == dropna(pct_change(close))
        high_52w       == FMax(data.cols["high"])
        low_52w        == FMin(data.cols["low"])
        price_range    == FSub(high_52w, low_52w)
        avg_volume     == mean(data.cols["volume"])
        current_volume == data.cols["volume"][data.len]
    IN  [current_price  |-> current_price,
         total_return   |->
             IF start_price # Float(0)
             THEN FMul(FSub(FDiv(current_price, start_price), Float(1)),
                       Float(100))
             ELSE Float(0),
         volatility     |->
             IF Len(returns) < 2 THEN Float(0) ELSE Volatility(returns),
         sharpe_ratio   |->
             IF Len(returns) < 2 THEN Float(0) ELSE SharpeRatio(returns),
         max_drawdown   |->
             IF Len(returns) > 0 THEN MaxDrawdown(returns) ELSE Float(0),
         high_52w       |-> high_52w,
         low_52w        |-> low_52w,
         price_position |->
             IF FloatGt(price_range, Float(0))
             THEN FMul(FDiv(FSub(current_price, low_52w), price_range),
                       Float(100))
             ELSE Float(50),
         avg_volume     |-> avg_volume,
         volume_ratio   |->
             IF FloatGt(avg_volume, Float(0))
             THEN FDiv(current_volume, avg_volume)
             ELSE Float(1)]

-----------------------------------------------------------------------------
(* Calls of calculate_metrics on price frames *)

\* daily bars reduced to their close, so that flat series, series of equal
\* daily changes (1, 2, 4) and series of changing ones all occur
MetricsBars ==
    {[high |-> c, low |-> c, close |-> c, volume |-> v] :
        c \in {1, 2, 4}, v \in {10, 30}}

MetricsFrames ==
    PriceFrames \cup
    {DataFrame(1, PriceColumns, rows) :
        rows \in UNION {[1..n -> MetricsBars] : n \in 0..MaxLen}}

InitMetrics ==
    /\ IdleComparison
    /\ price_data \in MetricsFrames
    /\ technical_data = NoResult
    /\ tech_summary = NoResult
    /\ indicator = NoResult
    /\ IdleOther

\* metrics = self.calculate_metrics(stock_data)
CalculateMetrics ==
    /\ price_data # NoResult
    /\ perf_metrics = NoResult
    /\ perf_metrics' = Returned(calculate_metrics_frame(price_data))
    /\ UNCHANGED <<symbols, comparison_data, scores, result, pc>>
    /\ UNCHANGED <<price_data, technical_data, tech_summary, indicator>>
    /\ UNCHANGED <<ai_advisor, data_fetcher, market_codes, news_sentiment>>

NextMetrics == CalculateMetrics

SpecMetrics == InitMetrics /\ [][NextMetrics]_vars

\* the daily changes of the closes of the price frame
DailyChanges ==
    LET close == price_data.cols["close"]
    IN  [i \in 1..(Len(close) - 1) |->
            FSub(FDiv(close[i + 1], close[i]), Float(1))]

\* calculate_metrics has returned a record of metrics
HasMetrics == perf_metrics # NoResult /\ perf_metrics.value # None

-----------------------------------------------------------------------------
\* C21: calculate_metrics on a series of two or more identical closes
\* returns volatility 0 and sharpe_ratio 0; in general it returns
\* sharpe_ratio 0 whenever there are fewer than 2 daily changes or the daily
\* changes are all equal (their standard deviation is 0).
C21_FlatSeriesHasZeroRisk ==
    HasMetrics =>
        LET close   == price_data.cols["close"]
            changes == DailyChanges
        IN  /\ (\A i \in 1..Len(close) : close[i] = close[1])
                  => /\ perf_metrics.value.volatility = Float(0)
                     /\ perf_metrics.value.sharpe_ratio = Float(0)
            /\ (Len(changes) < 2
                  \/ \A i \in 1..Len(changes) : changes[i] = changes[1])
                  => perf_metrics.value.sharpe_ratio = Float(0)

\* three closes that double: two equal daily changes that are not 0
C21_Witness ==
    /\ HasMetrics
    /\ price_data.len = 3
    /\ price_data.cols["close"] = <<Float(1), Float(2), Float(4)>>
    /\ perf_metrics.value.sharpe_ratio = Float(0)
    /\ perf_metrics.value.volatility = Float(0)
    /\ perf_metrics.value.total_return = Float(300)

-----------------------------------------------------------------------------
\* the fields of the record of metrics
MetricFields ==
    {"current_price", "total_return", "volatility", "sharpe_ratio",
     "max_drawdown", "high_52w", "low_52w", "price_position", "avg_volume",
     "volume_ratio"}

\* C22: calculate_metrics returns None for every series of fewer than 2 bars
\* (empty, or a single bar) and never raises; for a series of 2 bars or more
\* that has its price columns it returns a record with the ten metric
\* fields.
C22_NullBelowTwoBars ==
    perf_metrics # NoResult =>
        /\ perf_metrics.outcome = "returned"
        /\ price_data.len < 2 => perf_metrics.value = None
        /\ (price_data.len >= 2 /\ PriceColumns \subseteq DOMAIN price_data.cols)
              => /\ perf_metrics.value # None
                 /\ DOMAIN perf_metrics.value = MetricFields

\* a single bar
C22_Witness ==
    /\ perf_metrics = Returned(None)
    /\ price_data.len = 1
    /\ PriceColumns \subseteq DOMAIN price_data.cols

-----------------------------------------------------------------------------
(* Calls of calculate_sma on the closes of a price frame *)

CalculateSma ==
    /\ indicator = NoResult
    /\ \E window \in 1..MaxWindow :
          indicator' =
              [name   |-> "calculate_sma",
               window |-> window,
               value  |-> calculate_sma(price_data.cols["close"], window)]
    /\ UNCHANGED <<symbols, comparison_data, scores, result, pc>>
    /\ UNCHANGED <<price_data, technical_data, tech_summary>>
    /\ UNCHANGED other_vars

NextSma == CalculateSma

SpecSma == InitIndicators /\ [][NextSma]_vars

\* the sum of the integers of a window of floats
RECURSIVE IntSum(_)
IntSum(w) == IF w = << >> THEN 0 ELSE Head(w).n + IntSum(Tail(w))

\* C23: calculate_sma(x, w) has the length of x; it is undefined (nan) at
\* every position that has fewer than w values up to it, and at every other
\* position it is the arithmetic mean of the w values that end there.
C23_SmaIsWindowMean ==
    Called("calculate_sma") =>
        LET x == price_data.cols["close"]
            w == indicator.window
        IN  /\ Len(indicator.value) = Len(x)
            /\ \A i \in 1..Len(x) :
                  IF i < w
                  THEN IsNaN(indicator.value[i])
                  ELSE indicator.value[i]
                         = Q(IntSum(SubSeq(x, i - w + 1, i)), w)

\* closes 1, 2, 2, 1 with window 3: undefined twice, then 5/3 twice
C23_Witness ==
    /\ Called("calculate_sma")
    /\ indicator.window = 3
    /\ price_data.cols["close"] = <<Float(1), Float(2), Float(2), Float(1)>>
    /\ indicator.value = <<FloatNaN, FloatNaN, Q(5, 3), Q(5, 3)>>

-----------------------------------------------------------------------------
\* C24: the ranker returns the degraded insufficient-data result only when no
\* present asset has usable metrics: whenever a present asset has usable
\* metrics, a returned result is a normal ranking whose best_choice is an
\* asset with usable metrics (an asset without metrics, stored with the base
\* score 50, neither displaces a usable asset that scored below 50 nor turns
\* the result into the degraded one).
C24_DegradedOnlyWhenNoneUsable ==
    (IsReturned /\ Usable # {}) =>
        /\ IsNormal
        /\ result.value.best_choice \in Usable

-----------------------------------------------------------------------------
\* asset x is at least as good as asset y in every metric, with the same
\* summary
Dominates(x, y) ==
    LET mx == calculate_metrics(comparison_data[x].data)
        my == calculate_metrics(comparison_data[y].data)
    IN  /\ mx.total_return >= my.total_return
        /\ mx.sharpe_ratio >= my.sharpe_ratio
        /\ mx.max_drawdown >= my.max_drawdown
        /\ mx.volatility <= my.volatility
        /\ comparison_data[x].summary = comparison_data[y].summary

\* the first position of a symbol in the input list, and in the rankings
InputPosition(s) == CHOOSE i \in 1..Len(symbols) :
    symbols[i] = s /\ \A j \in 1..(i - 1) : symbols[j] # s

RankPosition(s) == CHOOSE i \in 1..Len(result.value.rankings) :
    /\ result.value.rankings[i].symbol = s
    /\ \A j \in 1..(i - 1) : result.value.rankings[j].symbol # s

\* C25: if asset X has total_return, sharpe_ratio and max_drawdown at least
\* those of asset Y, volatility at most that of Y, and the same RSI, trend
\* and MACD summary values, then score(X) >= score(Y), and X is not ranked
\* below Y unless their scores are equal and Y comes first in the input.
C25_ScoreMonotone ==
    IsReturned =>
        \A x \in Usable : \A y \in Usable \ {x} :
            Dominates(x, y) =>
                /\ DictGet(scores, x) >= DictGet(scores, y)
                /\ RankPosition(x) > RankPosition(y)
                      => /\ DictGet(scores, x) = DictGet(scores, y)
                         /\ InputPosition(y) < InputPosition(x)

\* the part of C25 that the code satisfies: the scores are monotone, and the
\* order holds in every normal result
MonotoneInNormalResults ==
    pc = "done" =>
        \A x \in Usable : \A y \in Usable \ {x} :
            Dominates(x, y) =>
                /\ DictGet(scores, x) >= DictGet(scores, y)
                /\ (IsNormal /\ RankPosition(x) > RankPosition(y))
                      => /\ DictGet(scores, x) = DictGet(scores, y)
                         /\ InputPosition(y) < InputPosition(x)

-----------------------------------------------------------------------------
(***************************************************************************)
(* StockComparison.generate_comparison_analysis                            *)
(* (src/components/comparison.py).  The advisor is an input: whether it is *)
(* available, and what a call of its _call_model_with_retry does.          *)
(* AIAdvisor (src/utils/ai_advisor.py) defines no method of that name, so  *)
(* with that class the call raises AttributeError; the other outcomes are  *)
(* those of an advisor that has the method.  A response text is a sequence *)
(* of tokens: a fence, white space, a JSON document, or other words.       *)
(***************************************************************************)

MaxTokens == 3

\* the markdown fences: three backquotes followed by json, three backquotes
FENCE_JSON == "[fence]json"

FENCE == "[fence]"

WHITESPACE == " "

\* the JSON documents of the response texts and the values they decode to
JsonDocuments == {"{\"best_choice\": \"A\"}"}

JsonValue(document) ==
    CASE document = "{\"best_choice\": \"A\"}" -> [best_choice |-> "A"]

Tokens == {FENCE_JSON, FENCE, WHITESPACE, "Sorry"} \cup JsonDocuments

Text(tokens) == [text |-> tokens]

\* str.strip()
RECURSIVE lstrip(_)
lstrip(tokens) ==
    IF tokens # << >> /\ Head(tokens) = WHITESPACE
    THEN lstrip(Tail(tokens))
    ELSE tokens

RECURSIVE rstrip(_)
rstrip(tokens) ==
    IF tokens # << >> /\ tokens[Len(tokens)] = WHITESPACE
    THEN rstrip(SubSeq(tokens, 1, Len(tokens) - 1))
    ELSE tokens

strip(tokens) == rstrip(lstrip(tokens))

\* the text without its markdown fences: seven characters are cut from a
\* text that starts with the json fence, then three from one that starts
\* with a fence (which leaves the word json of a second json fence), then
\* three from one that ends with a fence
CleanText(response_text) ==
    LET t0 == strip(response_text)
        t1 == IF t0 # << >> /\ Head(t0) = FENCE_JSON THEN Tail(t0) ELSE t0
        t2 == IF t1 # << >> /\ Head(t1) = FENCE THEN Tail(t1)
              ELSE IF t1 # << >> /\ Head(t1) = FENCE_JSON
              THEN <<"json">> \o Tail(t1)
              ELSE t1
        t3 == IF t2 # << >> /\ t2[Len(t2)] = FENCE
              THEN SubSeq(t2, 1, Len(t2) - 1)
              ELSE t2
    IN  strip(t3)

\* faulty variant of json_loads: None for a text that is not a document
json_loads_Lenient(clean_text) ==
    IF Len(clean_text) = 1 /\ clean_text[1] \in JsonDocuments
    THEN Returned(JsonValue(clean_text[1]))
    ELSE Returned(None)

\* json.loads(clean_text)
json_loads(clean_text) ==
    IF Len(clean_text) = 1 /\ clean_text[1] \in JsonDocuments
    THEN Returned(JsonValue(clean_text[1]))
    ELSE Raised("JSONDecodeError")

\* the symbols that the prompt describes
RECURSIVE AnalysisText(_, _, _)
AnalysisText(syms, i, cd) ==
    IF i > Len(syms) THEN << >>
    ELSE LET symbol == syms[i]
             rest   == AnalysisText(syms, i + 1, cd)
         IN  IF symbol \in DOMAIN cd
                /\ calculate_metrics(cd[symbol].data) # None
             THEN <<symbol>> \o rest
             ELSE rest

\* self.ai_advisor._call_model_with_retry(prompt, ...)
_call_model_with_retry(advisor, prompt) == advisor.model_call

\* the body of the try block of generate_comparison_analysis
TryComparisonAnalysis(advisor, syms, cd) ==
    LET prompt   == AnalysisText(syms, 1, cd)
        response == _call_model_with_retry(advisor, prompt)
    IN  IF response.outcome = "raised" THEN response
        ELSE IF response.value # None /\ response.value.text # << >>
        THEN json_loads(CleanText(response.value.text))
        ELSE _generate_fallback_comparison(syms, cd)

\* generate_comparison_analysis(symbols, comparison_data)
generate_comparison_analysis(advisor, syms, cd) ==
    IF ~advisor.available
    THEN _generate_fallback_comparison(syms, cd)
    ELSE LET body == TryComparisonAnalysis(advisor, syms, cd)
         IN  IF body.outcome = "raised"
             THEN _generate_fallback_comparison(syms, cd)
             ELSE body

-----------------------------------------------------------------------------
(* Calls of generate_comparison_analysis *)

ResponseTexts == UNION {[1..n -> Tokens] : n \in 0..MaxTokens}

\* what a call of _call_model_with_retry does: the method is absent or
\* raises, or it returns None or a text
ModelCalls ==
    {Raised("AttributeError"), Raised("APIError"), Returned(None)}
    \cup {Returned(Text(t)) : t \in ResponseTexts}

Advisors ==
    {[available |-> FALSE, model_call |-> Raised("AttributeError")]}
    \cup {[available |-> TRUE, model_call |-> c] : c \in ModelCalls}

AdvisorEntries ==
    UnusableEntries \cup
    {Entry(Frame(2, 25, 12, 3, -35), Summary(50, STRONG_UPTREND, "Bullish")),
     Entry(Frame(2, -20, 50, 3, -35), Summary(75, DOWNTREND, "Bearish"))}

InitAdvisor ==
    /\ symbols \in {<< >>, <<"A">>, <<"A", "B">>, <<"B", "A">>}
    /\ comparison_data \in
          UNION {[D -> AdvisorEntries] : D \in SUBSET {"A", "B"}}
    /\ scores = << >>
    /\ result = NoResult
    /\ pc = "ready"
    /\ IdleAnalyzer
    /\ perf_metrics = NoResult
    /\ ai_advisor \in Advisors
    /\ data_fetcher = NoResult
    /\ market_codes = << >>
    /\ news_sentiment = NoResult

\* analysis = self.generate_comparison_analysis(symbols, comparison_data)
GenerateComparisonAnalysis ==
    /\ pc = "ready"
    /\ ai_advisor # NoResult
    /\ result' = generate_comparison_analysis(ai_advisor, symbols,
                                              comparison_data)
    /\ pc' = "done"
    /\ UNCHANGED <<symbols, comparison_data, scores>>
    /\ UNCHANGED <<price_data, technical_data, tech_summary, indicator>>
    /\ UNCHANGED other_vars

NextAdvisor == GenerateComparisonAnalysis

SpecAdvisor == InitAdvisor /\ [][NextAdvisor]_vars

\* the exceptions of the AI step
AiExceptions == {"AttributeError", "APIError", "JSONDecodeError"}

\* the response text is one JSON document, possibly between markdown fences
\* and white space
IsFencedDocument(tokens) ==
    LET words == SelectSeq(tokens, LAMBDA t : t # WHITESPACE)
    IN  /\ \E d \in JsonDocuments :
              words \in {<<d>>, <<FENCE_JSON, d>>, <<FENCE, d>>,
                         <<d, FENCE>>, <<FENCE_JSON, d, FENCE>>,
                         <<FENCE, d, FENCE>>, <<FENCE_JSON, FENCE, d>>,
                         <<FENCE_JSON, FENCE, d, FENCE>>}
        /\ ~\E i \in 1..(Len(tokens) - 2) :
              /\ tokens[i] = FENCE_JSON
              /\ tokens[i + 1] = WHITESPACE
              /\ Len(words) > 1 /\ words[2] = FENCE

\* the AI step delivers parsable JSON
ParsableJson ==
    /\ ai_advisor.available
    /\ ai_advisor.model_call.outcome = "returned"
    /\ ai_advisor.model_call.value # None
    /\ IsFencedDocument(ai_advisor.model_call.value.text)

-----------------------------------------------------------------------------
\* C26: generate_comparison_analysis returns exactly what
\* _generate_fallback_comparison gives on the same inputs whenever the AI
\* step does not deliver parsable JSON (advisor unavailable, model call
\* raising or absent, empty response text, JSON parse error), and no
\* exception of the AI step reaches the caller.
C26_FallbackWithoutParsableJson ==
    (pc = "done" /\ ai_advisor # NoResult) =>
        /\ ~ParsableJson
              => result = _generate_fallback_comparison(symbols,
                                                        comparison_data)
        /\ result.outcome = "raised" => result.exception \notin AiExceptions

\* with parsable JSON the decoded document is returned
ParsableJsonIsReturned ==
    (pc = "done" /\ ai_advisor # NoResult /\ ParsableJson) =>
        result \in {Returned(JsonValue(d)) : d \in JsonDocuments}

\* a fenced response without a document, with a usable asset to rank
C26_Witness ==
    /\ pc = "done"
    /\ ai_advisor # NoResult
    /\ ai_advisor.available
    /\ ai_advisor.model_call = Returned(Text(<<FENCE_JSON, "Sorry", FENCE>>))
    /\ symbols = <<"A", "B">>
    /\ result.outcome = "returned"
    /\ "best_choice" \in DOMAIN result.value
    /\ result.value.best_choice \in {"A", "B"}
    /\ result = _generate_fallback_comparison(symbols, comparison_data)

-----------------------------------------------------------------------------
(***************************************************************************)
(* StockComparison.fetch_comparison_data (src/components/comparison.py).   *)
(* The data fetcher is an input: for every symbol, what get_stock_data     *)
(* does.  The dict that the loop builds is kept with its insertion order,  *)
(* as a sequence of [symbol, value] items.                                 *)
(***************************************************************************)

MaxFetched == 2

\* comparison_data[symbol] = value
ItemSet(d, symbol, value) ==
    IF \E i \in 1..Len(d) : d[i].symbol = symbol
    THEN [i \in 1..Len(d) |->
             IF d[i].symbol = symbol
             THEN [symbol |-> symbol, value |-> value]
             ELSE d[i]]
    ELSE Append(d, [symbol |-> symbol, value |-> value])

\* the dict as a mapping
AsMapping(d) ==
    [s \in {d[i].symbol : i \in 1..Len(d)} |->
        (CHOOSE item \in Range(d) : item.symbol = s).value]

\* zip(symbols, market_codes)
zip(syms, codes) ==
    [i \in 1..Min(Len(syms), Len(codes)) |->
        [symbol |-> syms[i], market_code |-> codes[i]]]

\* self.data_fetcher.get_stock_data(symbol, market_code, days)
get_stock_data(fetcher, symbol) == fetcher[symbol]

\* faulty variant of FetchStep: an empty frame is processed as well
FetchStep_KeepEmpty(d, symbol, market_code, fetcher) ==
    LET fetched == get_stock_data(fetcher, symbol)
    IN  IF fetched.outcome = "raised" THEN d
        ELSE IF fetched.value = None THEN d
        ELSE LET panel == calculate_all_indicators(fetched.value)
             IN  ItemSet(d, symbol,
                         [data      |-> fetched.value,
                          technical |-> panel,
                          summary   |-> get_technical_summary(panel),
                          market    |-> market_code])

\* one iteration of the loop: an exception of the fetch is caught and the
\* loop continues, as it does when there is no data
FetchStep(d, symbol, market_code, fetcher) ==
    LET fetched == get_stock_data(fetcher, symbol)
    IN  IF fetched.outcome = "raised" THEN d
        ELSE IF fetched.value = None \/ IsEmpty(fetched.value) THEN d
        ELSE LET panel == calculate_all_indicators(fetched.value)
             IN  ItemSet(d, symbol,
                         [data      |-> fetched.value,
                          technical |-> panel,
                          summary   |-> get_technical_summary(panel),
                          market    |-> market_code])

RECURSIVE FetchLoop(_, _, _, _)
FetchLoop(d, pairs, i, fetcher) ==
    IF i > Len(pairs) THEN d
    ELSE FetchLoop(FetchStep(d, pairs[i].symbol, pairs[i].market_code,
                             fetcher),
                   pairs, i + 1, fetcher)

\* fetch_comparison_data(symbols, market_codes, days)
fetch_comparison_data(syms, codes, fetcher) ==
    Returned(FetchLoop(<< >>, zip(syms, codes), 1, fetcher))

-----------------------------------------------------------------------------
(* Calls of fetch_comparison_data *)

FetchedSymbols == {"A", "B"}

MarketCodes == {"US", "IN"}

\* what get_stock_data gives: a frame without columns (its own failure
\* path), a frame of no row, a frame of one row with or without its close
\* column, None, or an exception
FetchedFrames ==
    {DataFrame(1, {}, << >>)} \cup
    {DataFrame(1, columns, rows) :
        columns \in {PriceColumns, {"high", "low", "volume"}},
        rows \in {<< >>,
                  <<[high |-> 3, low |-> 1, close |-> 2, volume |-> 10]>>}}

FetchOutcomes ==
    {Returned(None), Raised("ConnectionError")}
    \cup {Returned(f) : f \in FetchedFrames}

InitFetch ==
    /\ \E n \in 0..MaxFetched :
          /\ symbols \in [1..n -> FetchedSymbols]
          /\ market_codes \in [1..n -> MarketCodes]
    /\ data_fetcher \in [FetchedSymbols -> FetchOutcomes]
    /\ comparison_data = << >>
    /\ scores = << >>
    /\ result = NoResult
    /\ pc = "ready"
    /\ IdleAnalyzer
    /\ perf_metrics = NoResult
    /\ ai_advisor = NoResult
    /\ news_sentiment = NoResult

\* comparison_data = fetch_comparison_data(symbols, market_codes, days)
FetchComparisonData ==
    /\ pc = "ready"
    /\ data_fetcher # NoResult
    /\ result' = fetch_comparison_data(symbols, market_codes, data_fetcher)
    /\ comparison_data' = AsMapping(result'.value)
    /\ pc' = "done"
    /\ UNCHANGED <<symbols, scores>>
    /\ UNCHANGED <<price_data, technical_data, tech_summary, indicator>>
    /\ UNCHANGED other_vars

NextFetch == FetchComparisonData

SpecFetch == InitFetch /\ [][NextFetch]_vars

\* the symbols whose fetch gives a series that is not empty
Fetchable ==
    {s \in Range(symbols) :
        /\ data_fetcher[s].outcome = "returned"
        /\ data_fetcher[s].value # None
        /\ data_fetcher[s].value.len > 0
        /\ DOMAIN data_fetcher[s].value.cols # {}}

\* the position of the first occurrence of a symbol in the input
FirstPosition(s) ==
    CHOOSE i \in 1..Len(symbols) :
        symbols[i] = s /\ \A j \in 1..(i - 1) : symbols[j] # s

\* the position of the last occurrence of a symbol in the input
LastPosition(s) ==
    CHOOSE i \in 1..Len(symbols) :
        symbols[i] = s /\ \A j \in (i + 1)..Len(symbols) : symbols[j] # s

-----------------------------------------------------------------------------
\* C27: fetch_comparison_data processes the symbols in input order and
\* isolates failures per symbol: a symbol whose fetch returns None or an
\* empty series, or raises, is omitted and the later symbols are still
\* processed.  The returned map holds exactly the symbols whose fetch gave a
\* series that is not empty, in input order, each with its data, panel,
\* summary and market; the call does not raise.
C27_FetchIsolatesFailures ==
    (pc = "done" /\ data_fetcher # NoResult) =>
        /\ result.outcome = "returned"
        /\ LET d == result.value
           IN  /\ {d[i].symbol : i \in 1..Len(d)} = Fetchable
               /\ \A i, j \in 1..Len(d) :
                     i < j => FirstPosition(d[i].symbol)
                                 < FirstPosition(d[j].symbol)
               /\ \A i \in 1..Len(d) :
                     LET s == d[i].symbol
                         v == d[i].value
                     IN  /\ DOMAIN v
                               = {"data", "technical", "summary", "market"}
                         /\ v.data = data_fetcher[s].value
                         /\ v.technical = calculate_all_indicators(v.data)
                         /\ v.summary = get_technical_summary(v.technical)
                         /\ v.market = market_codes[LastPosition(s)]
        /\ DOMAIN comparison_data = Fetchable

\* the fetch of the first symbol raises, the second symbol has data
C27_Witness ==
    /\ pc = "done"
    /\ data_fetcher # NoResult
    /\ symbols = <<"A", "B">>
    /\ data_fetcher["A"].outcome = "raised"
    /\ "B" \in Fetchable
    /\ Len(result.value) = 1
    /\ result.value[1].symbol = "B"
    /\ result.value[1].value.market = market_codes[2]

-----------------------------------------------------------------------------
\* C28: for a panel of fewer than 50 rows (sma_50 has no value in its last
\* row) trend_signal is never "Strong Uptrend" or "Strong Downtrend": it is
\* "Uptrend", "Downtrend" or "Sideways".
C28_NoStrongTrendBelow50Bars ==
    (Summarised /\ technical_data.value.len < 50) =>
        /\ IsMissing("sma_50")
        /\ tech_summary.value.trend_signal \in {UPTREND, DOWNTREND, SIDEWAYS}

\* 21 rows with the close below sma_20
C28_Witness ==
    /\ Summarised
    /\ technical_data.value.len = 21
    /\ Latest("close") = Float(3)
    /\ Latest("sma_20") = Float(4)
    /\ IsNaN(Latest("sma_50"))
    /\ tech_summary.value.trend_signal = DOWNTREND

-----------------------------------------------------------------------------
\* C29: for a panel of fewer than 20 rows volume_signal is "Normal Volume",
\* whatever the volumes are.
C29_NormalVolumeBelow20Rows ==
    (Summarised /\ technical_data.value.len < 20) =>
        tech_summary.value.volume_signal = "Normal Volume"

\* 19 rows, the latest volume ten times the others
C29_Witness ==
    /\ Summarised
    /\ technical_data.value.len = 19
    /\ technical_data.value.cols["volume"][18] = Float(10)
    /\ technical_data.value.cols["volume"][19] = Float(100)
    /\ tech_summary.value.volume_signal = "Normal Volume"

-----------------------------------------------------------------------------
(***************************************************************************)
(* AIAdvisor._create_fallback_analysis (src/utils/ai_advisor.py): the      *)
(* recommendation, the risk level and the confidence that it derives from  *)
(* the technical summary and the news sentiment.                           *)
(***************************************************************************)

\* the words of the texts of a summary
Words(text) ==
    CASE text = "High Volume"      -> <<"High", "Volume">>
      [] text = "Low Volume"       -> <<"Low", "Volume">>
      [] text = "Normal Volume"    -> <<"Normal", "Volume">>
      [] text = "Normal"           -> <<"Normal">>
      [] text = "Above Upper Band" -> <<"Above", "Upper", "Band">>
      [] text = "Below Lower Band" -> <<"Below", "Lower", "Band">>
      [] text = "Within Bands"     -> <<"Within", "Bands">>

Bull(tally, points) == [tally EXCEPT !.bullish = @ + points]

Bear(tally, points) == [tally EXCEPT !.bearish = @ + points]

\* the RSI block
RsiBlock(tally, rsi) ==
    IF FloatLt(rsi, Float(25)) THEN Bull(tally, 3)
    ELSE IF FloatLt(rsi, Float(35)) THEN Bull(tally, 2)
    ELSE IF FloatGt(rsi, Float(75)) THEN Bear(tally, 3)
    ELSE IF FloatGt(rsi, Float(65)) THEN Bear(tally, 2)
    ELSE tally

\* the trend block
TrendBlock(tally, trend) ==
    IF Contains(STRONG_UPTREND, trend) THEN Bull(tally, 3)
    ELSE IF Contains(UPTREND, trend) THEN Bull(tally, 2)
    ELSE IF Contains(STRONG_DOWNTREND, trend) THEN Bear(tally, 3)
    ELSE IF Contains(DOWNTREND, trend) THEN Bear(tally, 2)
    ELSE tally

\* the MACD block
MacdBlock(tally, macd) ==
    IF macd = "Bullish" THEN Bull(tally, 2)
    ELSE IF macd = "Bearish" THEN Bear(tally, 2)
    ELSE tally

\* the volume block: a high volume adds to the side that leads so far, to
\* the bearish side when none leads
VolumeBlock(tally, volume) ==
    IF Contains(<<"High">>, volume)
    THEN IF tally.bullish > tally.bearish THEN Bull(tally, 1)
         ELSE Bear(tally, 1)
    ELSE tally

\* the news block
NewsBlock(tally, sentiment) ==
    IF sentiment = "positive" THEN Bull(tally, 1)
    ELSE IF sentiment = "negative" THEN Bear(tally, 1)
    ELSE tally

\* the Bollinger block
BollingerBlock(tally, bollinger) ==
    IF Contains(<<"Below">>, bollinger) THEN Bull(tally, 1)
    ELSE IF Contains(<<"Above">>, bollinger) THEN Bear(tally, 1)
    ELSE tally

\* bullish_score and bearish_score after the six scoring blocks
FallbackScores(summary, sentiment) ==
    BollingerBlock(
        NewsBlock(
            VolumeBlock(
                MacdBlock(
                    TrendBlock(
                        RsiBlock([bullish |-> 0, bearish |-> 0],
                                 Get(summary, "rsi_current", Float(50))),
                        Get(summary, "trend_signal", <<"Neutral">>)),
                    Get(summary, "macd_signal", "Neutral")),
                Words(Get(summary, "volume_signal", "Normal"))),
            sentiment),
        Words(Get(summary, "bollinger_position", "Within Bands")))

\* the recommendation, the risk level and the confidence for the two scores
Recommendation(bullish, bearish) ==
    IF bullish >= 6 /\ Abs(bullish - bearish) >= 3
    THEN [risk_level       |-> "Medium",
          recommendation   |-> "Strong Buy",
          confidence_level |-> "High"]
    ELSE IF bullish >= 4
    THEN [risk_level       |-> "Medium",
          recommendation   |-> "Buy",
          confidence_level |->
              IF Abs(bullish - bearish) >= 2 THEN "Medium" ELSE "Low"]
    ELSE IF bearish >= 6 /\ Abs(bullish - bearish) >= 3
    THEN [risk_level       |-> "High",
          recommendation   |-> "Strong Sell",
          confidence_level |-> "High"]
    ELSE IF bearish >= 4
    THEN [risk_level       |-> "High",
          recommendation   |-> "Sell",
          confidence_level |->
              IF Abs(bullish - bearish) >= 2 THEN "Medium" ELSE "Low"]
    ELSE [risk_level       |-> "Medium",
          recommendation   |-> "Hold",
          confidence_level |-> "Medium"]

\* _create_fallback_analysis(symbol, current_price, tech_summary,
\* news_sentiment, market_code)
_create_fallback_analysis(summary, sentiment) ==
    Recommendation(FallbackScores(summary, sentiment).bullish,
                   FallbackScores(summary, sentiment).bearish)

-----------------------------------------------------------------------------
(* Calls of _create_fallback_analysis *)

\* rsi values on both sides of 25, 35, 65 and 75
AdvisorRsis ==
    {Float(20), Float(25), Float(30), Float(35), Float(50), Float(65),
     Float(70), Float(75), Float(80), FloatNaN}

AdvisorSummaries ==
    {<< >>} \cup
    {[rsi_current        |-> rsi,
      trend_signal       |-> trend,
      macd_signal        |-> macd,
      volume_signal      |-> volume,
      bollinger_position |-> bollinger] :
        rsi \in AdvisorRsis,
        trend \in ScoreTrends \cup {<<"Neutral">>},
        macd \in {"Bullish", "Bearish", "Neutral"},
        volume \in {"High Volume", "Low Volume", "Normal Volume"},
        bollinger \in {"Above Upper Band", "Below Lower Band",
                       "Within Bands"}}

NewsSentiments == {"positive", "negative", "neutral"}

InitFallbackAnalysis ==
    /\ symbols = << >>
    /\ comparison_data = << >>
    /\ scores = << >>
    /\ result = NoResult
    /\ pc = "ready"
    /\ price_data = NoResult
    /\ technical_data = NoResult
    /\ tech_summary \in {Returned(summary) : summary \in AdvisorSummaries}
    /\ indicator = NoResult
    /\ perf_metrics = NoResult
    /\ ai_advisor = NoResult
    /\ data_fetcher = NoResult
    /\ market_codes = << >>
    /\ news_sentiment \in NewsSentiments

\* analysis = self._create_fallback_analysis(symbol, current_price,
\* tech_summary, news_sentiment, market_code)
CreateFallbackAnalysis ==
    /\ pc = "ready"
    /\ tech_summary # NoResult
    /\ result' = Returned(_create_fallback_analysis(tech_summary.value,
                                                    news_sentiment))
    /\ pc' = "done"
    /\ UNCHANGED <<symbols, comparison_data, scores>>
    /\ UNCHANGED <<price_data, technical_data, tech_summary, indicator>>
    /\ UNCHANGED other_vars

NextFallbackAnalysis == CreateFallbackAnalysis

SpecFallbackAnalysis == InitFallbackAnalysis /\ [][NextFallbackAnalysis]_vars

\* the scores of the summary and the sentiment of the call
bullish_score == FallbackScores(tech_summary.value, news_sentiment).bullish

bearish_score == FallbackScores(tech_summary.value, news_sentiment).bearish

-----------------------------------------------------------------------------
\* C30: _create_fallback_analysis recommends "Buy" or "Strong Buy" only when
\* bullish_score is greater than bearish_score, and "Sell" or "Strong Sell"
\* only when bearish_score is greater than bullish_score, for every
\* combination of RSI, trend, MACD, volume, Bollinger position and news
\* sentiment.
C30_RecommendationFollowsScores ==
    (pc = "done" /\ tech_summary # NoResult) =>
        /\ result.value.recommendation \in {"Buy", "Strong Buy"}
              => bullish_score > bearish_score
        /\ result.value.recommendation \in {"Sell", "Strong Sell"}
              => bearish_score > bullish_score

\* what the code does: "Buy" follows from bullish_score >= 4 alone; the
\* other recommendations are on the side of the greater score
BuyFromBullishScoreAlone ==
    (pc = "done" /\ tech_summary # NoResult) =>
        /\ result.value.recommendation = "Strong Buy"
              <=> (bullish_score >= 6 /\ bullish_score - bearish_score >= 3)
        /\ result.value.recommendation = "Buy"
              <=> (bullish_score >= 4
                     /\ ~(bullish_score >= 6
                            /\ bullish_score - bearish_score >= 3))
        /\ result.value.recommendation \in {"Sell", "Strong Sell"}
              => (bullish_score < 4 /\ bearish_score > bullish_score)

====
